---------------------------- MODULE Spec2Model ----------------------------
(***************************************************************************)
(* A model of the JailedThreeJS synchronisation engine:                    *)
(*   Train.js   (lerp / animateLerp / KeyFrameAnimationLerp)               *)
(*   utils.js   (asset cache, fastRemove_arry)                             *)
(*   artist.js  (_apply_rule and the paint functions)                      *)
(*   cell.js    (Cell: scan, mutation observers, render loop)              *)
(*   NoScope.js (pointer handlers)                                         *)
(*                                                                         *)
(* The engine is single-threaded.  Every action below is one task of the   *)
(* browser's event loop together with the microtasks it leaves behind.     *)
(* Several specifications share the module; each one drives one group of      *)
(* variables and leaves the other groups at their initial value.           *)
(*                                                                         *)
(* Numbers are integers; a progress value t is the fraction num/den and    *)
(* a + (b-a)*t is evaluated as a + ((b-a)*num) \div den.                   *)
(***************************************************************************)
EXTENDS Integers, Sequences, FiniteSets, TLC

(***************************************************************************)
(* Bounds of the model.                                                    *)
(***************************************************************************)
\* longest numeric array handed to animateLerp
MaxLen == 2
\* nodes a cell creates in one behaviour
MaxNodes == 4
\* mutation records scripts queue before the observer callback runs
MaxRecords == 2
\* stylesheet notifications between two display refreshes
MaxNotices == 3
\* iterations of one keyframe run that are counted
MaxIters == 3
\* longest animation duration in milliseconds
MaxDur == 3
\* longest time between two display refreshes, in milliseconds
MaxDelta == 2
\* asset loads issued in one behaviour
MaxLoads == 4
\* KeyFrameAnimationLerp invocations alive at once that the model can hold
MaxRuns == 2
\* the duration, in milliseconds, of a keyframe animation
MaxKeyDur == 4
\* significant bits of the floating-point format lerpNumber is evaluated in
FloatBits == 3
\* fractional bits below the unit: the format's smallest step is 2^-FracBits
FracBits == 2
\* longest array handed to lerpArray directly
MaxArrayLen == 3
\* largest denominator of a progress value handed to lerpArray
MaxTDen == 2
\* per-frame callbacks a cell holds at once, its own always-repaint pass included
MaxCallbacks == 3

VARIABLES
  \* ---- animateLerp called once (Train.js) ----
  from,          \* argument `from`
  to,            \* argument `to`
  durationMs,    \* argument `durationMs`
  phase,         \* "idle" (not called), "running" (step scheduled), "done"
  elapsed,       \* now - start at the last display refresh
  calls,         \* the callbacks invoked so far, in order
  samples,       \* display refreshes that ran a scheduled step
  \* ---- the asset cache (utils.js) ----
  assetMap,      \* assetMap: name -> absent, a value, or a pending promise
  assetRules,    \* names the stylesheets declare with an @name { url: ... } rule
  inFlight,      \* loadAsset promises not yet settled: a set of [id, name]
  promise,       \* per load id: the state of the `pending` promise handed out
  issuedLoads,   \* number of loadAsset calls made so far
  failedLoad,    \* per name: id of its failed load not followed by a lookup of the name, or 0
  lastAsset,     \* the last operation on the cache and what it did
  \* ---- keyframe animation of one node (artist.js, Train.js) ----
  keyframes,     \* cssRules of the @keyframes rule "spin", in document order
  animation,     \* object.animation
  animationRunning,  \* object.userData._animationRunning
  runs,          \* the KeyFrameAnimationLerp invocations that have not returned
  anims,         \* the animateLerp steps scheduled for the next refresh, in order
  props,         \* the node's properties
  hung,          \* a microtask loop that never yields has frozen the page
  keyUpdates,    \* the property updates the last task applied, in order
  lastKey,       \* the last task: a repaint, a refresh or an asset settling
  \* ---- one Cell over a document (cell.js, NoScope.js, artist.js) ----
  dom,               \* the children of the cell element and of every source element
  allConvictsByDom,  \* _allConvictsByDom: element -> node, 0 for no entry
  convictRef,        \* elm.convict, the back-reference defined on the element
  nodeEl,            \* userData.domEl of every node, 0 while the node is not created
  nodeParent,        \* convict.parent
  nextNode,          \* the node the next ScanElement creates
  namedConvicts,     \* the id index
  classyConvicts,    \* the class index
  constantConvicts,  \* the always-repaint set
  layers,            \* the nodes on the picking layer 3
  extraParams,       \* userData.extraParams: the pseudo-state flags of every node
  styleSheet,        \* the selectors the loaded stylesheets have a rule for
  mutationRecords,   \* the records queued for the _styleObserver callback
  last_cast_caught,  \* _last_cast_caught: the node of the last pointer hit, 0 for null
  focusedCamera,     \* focusedCamera: the node of the active camera, 0 for null
  pendingStyleRepaint,  \* _pendingStyleRepaint
  styleRequests,     \* the stylesheet repaints requested for the next refresh
  styleNotices,      \* the _styleElemObserver callbacks since the last refresh
  paints,            \* the rules the last handler applied, in order
  events,            \* the events the last pointer handler dispatched, in order
  gone,              \* the nodes of elements whose removal has been handled
  lastCell,          \* the last operation on the cell
  attributes,        \* tag, id, classes and other attributes of every source element
  domId,             \* userData.domId of every node
  classList,         \* userData.classList of every node
  \* ---- one call of a lerp function (Train.js) ----
  lerpIn,            \* the arguments of the call
  lerpOut,           \* what the call returned, or that it has not been made
  \* ---- the render loop of the cell (cell.js) ----
  running,           \* _running
  frameRequests,     \* requestAnimationFrame(this._anim) calls not yet served
  updateFunds,       \* updateFunds: the per-frame callbacks, in registration order
  lastTick,          \* what the last display refresh or loop operation did
  \* ---- the rules applied to one node (artist.js) ----
  transition,        \* object.transition: its duration, 0 for null
  values,            \* the node's properties x and y
  tweens,            \* the animateLerp steps scheduled for the next refresh, in order
  thens,             \* the assignValue continuations waiting for a promise, in order
  notices,           \* the TransitionFinished events dispatched so far, in order
  requests,          \* the property declarations applied so far, in call order
  \* ---- the JTHREE facade (main.js) ----
  cells,             \* the <cell> elements in the document
  noContext,         \* the <cell> elements whose canvas obtains no graphics context
  loadedCells,       \* __Loaded_Cells__: the elements that have a Cell
  styleTag,          \* __StyleTag__ is set
  overlays,          \* per <cell> element: the canvases appended to it
  lastInit,          \* the last call of the facade and what it did
  \* ---- the --animation declaration of one node (artist.js) ----
  declaration,       \* the value of the last --animation declaration applied
  parsedAnimation    \* object.animation as that declaration left it

animVars == <<from, to, durationMs, phase, elapsed, calls, samples>>

(***************************************************************************)
(* JavaScript values.  A number n is Num(n), an array is Arr(s), anything  *)
(* else (a string, null, an object) is Other(c).                           *)
(***************************************************************************)
Num(n) == [k |-> "num", a |-> <<n>>]

Arr(s) == [k |-> "arr", a |-> s]

Other(c) == [k |-> "other", a |-> <<c>>]

Max(x, y) == IF x >= y THEN x ELSE y

Numbers == {0, 4}

SeqsUpTo(S, n) == UNION {[1..m -> S] : m \in 0..n}

AnimValues ==
  {Num(n) : n \in Numbers} \cup {Arr(s) : s \in SeqsUpTo(Numbers, MaxLen)}
    \cup {Other(0)}

\* a duration: a finite number of milliseconds, or NaN / Infinity
Durations ==
  {[finite |-> TRUE, ms |-> d] : d \in -1..MaxDur} \cup {[finite |-> FALSE, ms |-> 0]}

(***************************************************************************)
(* Train.js: lerpNumber, lerpArray, lerpValue.                             *)
(***************************************************************************)
lerpNumber(a, b, num, den) == a + ((b - a) * num) \div den

\* lerpArray cut to the shorter of the two arrays
lerpArrayShort(f, t, num, den) ==
  [i \in 1..(IF Len(f) <= Len(t) THEN Len(f) ELSE Len(t)) |->
     lerpNumber(f[i], t[i], num, den)]

lerpArray(f, t, num, den) ==
  [i \in 1..Max(Len(f), Len(t)) |->
     IF i <= Len(f) /\ i <= Len(t) THEN lerpNumber(f[i], t[i], num, den)
     ELSE IF i <= Len(f) THEN f[i]
     ELSE t[i]]

lerpValue(f, t, num, den) ==
  IF f.k = "num" /\ t.k = "num" THEN Num(lerpNumber(f.a[1], t.a[1], num, den))
  ELSE IF f.k = "arr" /\ t.k = "arr" THEN Arr(lerpArray(f.a, t.a, num, den))
  ELSE t

(***************************************************************************)
(* Train.js: animateLerp.                                                  *)
(***************************************************************************)
isAnimatable(v) == v.k = "num" \/ v.k = "arr"

finishInstantAnyDuration(f, t, dur) == ~isAnimatable(f) \/ ~isAnimatable(t)

\* the two early returns of animateLerp
finishInstant(f, t, dur) ==
  \/ ~isAnimatable(f)
  \/ ~isAnimatable(t)
  \/ ~dur.finite
  \/ dur.ms <= 0

One == [num |-> 1, den |-> 1]

stepTUnclamped(el, dur) == [num |-> el, den |-> dur.ms]

\* step: t = (now - start) / durationMs, clamped to 1, as the fraction num/den
stepT(el, dur) == IF el >= dur.ms THEN One ELSE [num |-> el, den |-> dur.ms]

\* _get_Equation('linear')
ease(t) == t

\* step: the value handed to onUpdate
stepValue(f, t, el, dur) ==
  LET e == ease(stepT(el, dur)) IN lerpValue(f, t, e.num, e.den)

stepAgainAlways(el, dur) == TRUE

\* step: `if (t < 1) requestAnimationFrame(step)`
stepAgain(el, dur) == LET t == stepT(el, dur) IN t.num < t.den

Update(v, t) == [fn |-> "onUpdate", value |-> v, t |-> t]

Complete(v) == [fn |-> "onComplete", value |-> v, t |-> One]

\* the callbacks one run of step makes
stepCalls(f, t, el, dur) ==
  LET v == stepValue(f, t, el, dur) IN
  IF stepAgain(el, dur) THEN <<Update(v, ease(stepT(el, dur)))>>
  ELSE <<Update(v, ease(stepT(el, dur))), Complete(v)>>

AnimIdle ==
  /\ from = Num(0)
  /\ to = Num(0)
  /\ durationMs = [finite |-> TRUE, ms |-> 0]
  /\ phase = "idle"
  /\ elapsed = 0
  /\ calls = <<>>
  /\ samples = 0

AnimInit ==
  /\ from \in AnimValues
  /\ to \in AnimValues
  /\ durationMs \in Durations
  /\ phase = "idle"
  /\ elapsed = 0
  /\ calls = <<>>
  /\ samples = 0

\* animateLerp(from, to, durationMs, onUpdate, onComplete)
animateLerp ==
  /\ phase = "idle"
  /\ IF finishInstant(from, to, durationMs)
       THEN /\ calls' = <<Update(to, One), Complete(to)>>
            /\ phase' = "done"
       ELSE /\ calls' = calls
            /\ phase' = "running"
  /\ UNCHANGED <<from, to, durationMs, elapsed, samples>>

\* a display refresh d milliseconds after the last one runs the scheduled step
AnimFrame(d) ==
  /\ phase = "running"
  /\ elapsed' = elapsed + d
  /\ samples' = samples + 1
  /\ calls' = calls \o stepCalls(from, to, elapsed', durationMs)
  /\ phase' = IF stepAgain(elapsed', durationMs) THEN "running" ELSE "done"
  /\ UNCHANGED <<from, to, durationMs>>

\* a display refresh with no step scheduled calls nothing
AnimIdleFrame ==
  /\ phase = "done"
  /\ UNCHANGED animVars

(***************************************************************************)
(* utils.js: the asset cache.                                              *)
(***************************************************************************)
assetVars ==
  <<assetMap, assetRules, inFlight, promise, issuedLoads, failedLoad, lastAsset>>

\* getAsset seeds these on first use
Builtins == {"cube", "sphere", "plane", "torus"}

\* names a stylesheet rule or a caller may load
Loadable == {"ship", "tex"}

AssetNames == Builtins \cup Loadable

\* the order of the asset rules in the stylesheets
RuleOrder == <<"ship", "tex">>

Absent == [kind |-> "absent", id |-> 0]

\* the value a settled load (or, with id 0, a built-in geometry) left
Value(id) == [kind |-> "value", id |-> id]

\* the promise storeAssetValue derives from load number id
Pending(id) == [kind |-> "pending", id |-> id]

Null == [kind |-> "null", id |-> 0]

\* the cache and the loads, as getAsset threads them through its calls
Cache(m, fl, pr, n, iss) ==
  [map |-> m, flight |-> fl, promise |-> pr, issued |-> n, names |-> iss]

\* storeAssetValue(key, <a geometry>)
storeValue(c, key) == [c EXCEPT !.map = [c.map EXCEPT ![key] = Value(0)]]

\* storeAssetValue(key, loadAsset(url)): a new load, its derived promise cached
storeAssetValue(c, key) ==
  LET id == c.issued + 1 IN
  Cache([c.map EXCEPT ![key] = Pending(id)],
        c.flight \cup {[id |-> id, name |-> key]},
        [i \in DOMAIN c.promise |-> IF i = id THEN "pending" ELSE c.promise[i]],
        id,
        c.names \cup {key})

\* getAsset: `if (assetMap.size === 0)` seed the built-in geometries
seedBuiltins(c) ==
  IF \A n \in AssetNames : c.map[n] = Absent
    THEN [c EXCEPT !.map = [n \in AssetNames |-> IF n \in Builtins THEN Value(0) ELSE c.map[n]]]
    ELSE c

\* gatherAssetRules: `if (!assetMap.has(name)) storeAssetValue(name, loadAsset(url))`
RECURSIVE gatherAssetRules(_, _, _)
gatherAssetRules(c, rules, i) ==
  IF i > Len(RuleOrder) THEN c
  ELSE LET name == RuleOrder[i] IN
       IF name \in rules /\ c.map[name] = Absent
         THEN gatherAssetRules(storeAssetValue(c, name), rules, i + 1)
         ELSE gatherAssetRules(c, rules, i + 1)

getAssetAlwaysLoads(c, rules, name, path) ==
  LET g == gatherAssetRules(seedBuiltins(c), rules, 1) IN
  IF ~path THEN g ELSE storeAssetValue(g, name)

\* getAsset(name, path): the cache after the call
getAssetCache(c, rules, name, path) ==
  LET g == gatherAssetRules(seedBuiltins(c), rules, 1) IN
  IF g.map[name] = Absent
    THEN IF ~path THEN g ELSE storeAssetValue(g, name)
    ELSE g

\* getAsset(name, path): the value returned
getAssetResult(c, rules, name, path) ==
  LET g == gatherAssetRules(seedBuiltins(c), rules, 1) IN
  IF g.map[name] = Absent /\ ~path THEN Null
  ELSE getAssetCache(c, rules, name, path).map[name]

NoAssetOp ==
  [op |-> "none", name |-> "cube", path |-> FALSE, before |-> Absent,
   result |-> Null, loaded |-> {}, failed |-> 0]

AssetIdle ==
  /\ assetMap = [n \in AssetNames |-> Absent]
  /\ assetRules = {}
  /\ inFlight = {}
  /\ promise = [i \in 1..MaxLoads |-> "none"]
  /\ issuedLoads = 0
  /\ failedLoad = [n \in AssetNames |-> 0]
  /\ lastAsset = NoAssetOp

AssetInit ==
  /\ assetMap = [n \in AssetNames |-> Absent]
  /\ assetRules \in SUBSET Loadable
  /\ inFlight = {}
  /\ promise = [i \in 1..MaxLoads |-> "none"]
  /\ issuedLoads = 0
  /\ failedLoad = [n \in AssetNames |-> 0]
  /\ lastAsset = NoAssetOp

\* a call getAsset(name) or getAsset(name, path)
getAsset(name, path) ==
  LET c == Cache(assetMap, inFlight, promise, issuedLoads, {})
      d == getAssetCache(c, assetRules, name, path)
  IN /\ d.issued <= MaxLoads
     /\ assetMap' = d.map
     /\ inFlight' = d.flight
     /\ promise' = d.promise
     /\ issuedLoads' = d.issued
     /\ failedLoad' = [failedLoad EXCEPT ![name] = 0]
     /\ lastAsset' = [op |-> "getAsset", name |-> name, path |-> path,
                       before |-> assetMap[name],
                       result |-> getAssetResult(c, assetRules, name, path),
                       loaded |-> d.names, failed |-> failedLoad[name]]
     /\ UNCHANGED assetRules

evictNever(m, key) == m

\* storeAssetValue's catch handler: assetMap.delete(key)
evict(m, key) == [m EXCEPT ![key] = Absent]

\* a load fulfils: `.then(resolved => { assetMap.set(key, resolved) })`
LoadFulfilled(l) ==
  /\ l \in inFlight
  /\ inFlight' = inFlight \ {l}
  /\ assetMap' = [assetMap EXCEPT ![l.name] = Value(l.id)]
  /\ promise' = [promise EXCEPT ![l.id] = "value"]
  /\ lastAsset' = [NoAssetOp EXCEPT !.op = "fulfilled", !.name = l.name,
                                    !.before = assetMap[l.name]]
  /\ UNCHANGED <<assetRules, issuedLoads, failedLoad>>

\* a load rejects: `.catch(err => { assetMap.delete(key); return null })`
LoadRejected(l) ==
  /\ l \in inFlight
  /\ inFlight' = inFlight \ {l}
  /\ assetMap' = evict(assetMap, l.name)
  /\ promise' = [promise EXCEPT ![l.id] = "null"]
  /\ failedLoad' = [failedLoad EXCEPT ![l.name] = l.id]
  /\ lastAsset' = [NoAssetOp EXCEPT !.op = "rejected", !.name = l.name,
                                    !.before = assetMap[l.name], !.failed = l.id]
  /\ UNCHANGED <<assetRules, issuedLoads>>

(***************************************************************************)
(* Train.js: KeyFrameAnimationLerp, and the guard of _apply_rule that      *)
(* starts it (artist.js).  One node with the properties x and y.           *)
(***************************************************************************)
keyVars ==
  <<keyframes, animation, animationRunning, runs, anims, props, hung,
    keyUpdates, lastKey>>

KeyOrder == <<"x", "y">>

Keys == {"x", "y"}

\* iteration count 'infinite'
Infinite == -1

\* a raw declaration value "@tex"
Ref == [k |-> "ref", a |-> <<0>>]

\* the property is not declared in the frame
Undeclared == [k |-> "undeclared", a |-> <<0>>]

\* a promise still pending: the value getAsset returns for a load in flight
Promised(id) == [k |-> "promise", a |-> <<id>>]

NullValue == Other(-1)

From == [kind |-> "from", v |-> 0]

To == [kind |-> "to", v |-> 0]

Pct(v) == [kind |-> "pct", v |-> v]

KeyFrame(keyText, x, y) == [keyText |-> keyText, style |-> [x |-> x, y |-> y]]

\* the @keyframes rules the model draws from
KeyframeSets ==
  { <<KeyFrame(From, Num(0), Num(0)), KeyFrame(Pct(50), Num(4), Num(4)),
      KeyFrame(To, Num(0), Num(0))>>,
    <<KeyFrame(From, Num(0), Ref), KeyFrame(Pct(50), Num(4), Ref),
      KeyFrame(To, Num(0), Undeclared)>>,
    <<KeyFrame(To, Num(4), Undeclared), KeyFrame(From, Num(0), Num(4))>>,
    <<KeyFrame(From, Undeclared, Ref), KeyFrame(To, Undeclared, Ref)>>,
    <<KeyFrame(From, Num(0), Undeclared), KeyFrame(Pct(0), Num(4), Undeclared),
      KeyFrame(To, Num(0), Undeclared)>> }

NoAnimation == [name |-> "", duration |-> 0, count |-> 0]

\* the configs parseAnimationCSS yields for the declarations of the model
AnimationConfigs ==
  {[name |-> n, duration |-> d, count |-> c] :
     n \in {"spin", "ghost"}, d \in {0, MaxKeyDur}, c \in {1, 2, Infinite}}

\* parseKeyframeTime(keyText, totalDuration)
parseKeyframeTime(keyText, totalDuration) ==
  IF keyText.kind = "from" THEN 0
  ELSE IF keyText.kind = "to" THEN totalDuration
  ELSE (keyText.v * totalDuration) \div 100

\* Array.prototype.sort is stable: a rule goes behind the rules of equal time
RECURSIVE insertRule(_, _, _)
insertRule(sorted, rule, duration) ==
  IF sorted = <<>> THEN <<rule>>
  ELSE IF parseKeyframeTime(rule.keyText, duration)
            < parseKeyframeTime(Head(sorted).keyText, duration)
    THEN <<rule>> \o sorted
    ELSE <<Head(sorted)>> \o insertRule(Tail(sorted), rule, duration)

RECURSIVE sortRules(_, _)
sortRules(rules, duration) ==
  IF rules = <<>> THEN <<>>
  ELSE insertRule(sortRules(SubSeq(rules, 1, Len(rules) - 1), duration),
                  rules[Len(rules)], duration)

\* getAnimationMap(name): only "spin" is declared
getAnimationMap(name) == IF name = "spin" THEN keyframes ELSE <<>>

NoRun ==
  [active |-> FALSE, cfg |-> NoAnimation, iter |-> 0, pair |-> 0, susp |-> FALSE,
   keys |-> [k \in Keys |-> "none"],
   vals |-> [k \in Keys |-> [f |-> Undeclared, t |-> Undeclared]]]

\* the state the functions of a task thread through their calls
World(c, rs, an, todo, pr, flag, hg, ups, its) ==
  [c |-> c, runs |-> rs, anims |-> an, todo |-> todo, props |-> pr,
   running |-> flag, hung |-> hg, updates |-> ups, iterations |-> its, finished |-> FALSE]

Min(S) == CHOOSE x \in S : \A y \in S : x <= y

\* the oldest pair of run r that still has an animateLerp step scheduled
OldestOpen(w, r, dflt) ==
  LET open == {w.todo[m].pair : m \in {n \in 1..Len(w.todo) : w.todo[n].run = r}}
                \cup {w.anims[m].pair : m \in {n \in 1..Len(w.anims) : w.anims[n].run = r}}
                \cup {dflt}
  IN Min(open)

\* the onUpdate of KeyFrameAnimationLerp: exchange_rule(parent, finalKey, v)
applyUpdate(w, r, i, key, v) ==
  [w EXCEPT !.props[key] = v,
            !.updates = Append(@, [run |-> r, pair |-> i, key |-> key, v |-> v,
                                   oldest |-> OldestOpen(w, r, i)])]

\* CSSValueTo3JSValue(raw, object), after the cache has seen the lookup
CSSValueTo3JSValue(c, raw) ==
  IF raw.k # "ref" THEN raw
  ELSE LET e == c.map["tex"] IN
       IF e.kind = "pending" THEN Promised(e.id)
       ELSE IF e.kind = "value" THEN Other(e.id)
       ELSE NullValue

\* animateLerp as KeyFrameAnimationLerp calls it for one property of a pair
startAnim(w, r, i, key, f, t, seg) ==
  IF finishInstant(f, t, [finite |-> TRUE, ms |-> seg])
    THEN [applyUpdate(w, r, i, key, t) EXCEPT !.runs[r].keys[key] = "done"]
    ELSE [w EXCEPT !.anims = Append(@, [run |-> r, pair |-> i, key |-> key, f |-> f,
                                        t |-> t, el |-> 0, dur |-> seg]),
                   !.runs[r].keys[key] = "anim"]

\* Promise.all([resolveValue(fromVal), resolveValue(toVal)]).then(...)
launchKey(w, r, i, key, f, t, seg) ==
  IF f.k = "promise" \/ t.k = "promise"
    THEN [w EXCEPT !.runs[r].keys[key] = "await",
                   !.runs[r].vals[key] = [f |-> f, t |-> t]]
    ELSE startAnim(w, r, i, key, f, t, seg)

RECURSIVE launchKeys(_, _, _, _, _, _, _)
launchKeys(w, r, i, fromRule, toRule, seg, n) ==
  IF n > Len(KeyOrder) THEN w
  ELSE LET key == KeyOrder[n] IN
       IF fromRule.style[key] # Undeclared /\ toRule.style[key] # Undeclared
         THEN launchKeys(launchKey(w, r, i, key,
                                   CSSValueTo3JSValue(w.c, fromRule.style[key]),
                                   CSSValueTo3JSValue(w.c, toRule.style[key]), seg),
                         r, i, fromRule, toRule, seg, n + 1)
         ELSE launchKeys(w, r, i, fromRule, toRule, seg, n + 1)

pairDoneAny(run) == \E k \in Keys : run.keys[k] = "done"

\* `await Promise.all(keys.map(...))`: every property animation of the pair settled
pairDone(run) == \A k \in Keys : run.keys[k] \in {"none", "done"}

nextPair(w, r) ==
  [w EXCEPT !.runs[r].pair = @ + 1, !.runs[r].keys = [k \in Keys |-> "none"]]

\* the async wrapper of _apply_rule: `finally { _animationRunning = false }`
finishRun(w, r) == [w EXCEPT !.runs[r] = NoRun, !.running = FALSE, !.finished = TRUE]

\* runOnce has returned once more
iterated(w) == [w EXCEPT !.iterations = IF @ < MaxIters THEN @ + 1 ELSE @]

moreIterationsNever(run) == FALSE

\* `for (let i = 0; i < total; i++)` after an iteration has returned
moreIterations(run) == run.iter < run.cfg.count

loopsForeverNever(run) == FALSE

\* `if (iterationCount === Infinity) { while (true) { await runOnce(); } }`
loopsForever(run) == run.cfg.count = Infinite

\* runOnce and the iteration loop of KeyFrameAnimationLerp, from pair
\* runs[r].pair on, up to the next await that does not settle in this task
RECURSIVE runPair(_, _)
runPair(w, r) ==
  LET run == w.runs[r]
      rules == sortRules(getAnimationMap(run.cfg.name), run.cfg.duration)
      i == run.pair
  IN
  IF i >= Len(rules)
    THEN IF loopsForever(run)
           THEN IF run.susp
                  THEN runPair([iterated(w) EXCEPT !.runs[r].pair = 1,
                                                   !.runs[r].susp = FALSE], r)
                  ELSE [w EXCEPT !.hung = TRUE]
           ELSE IF moreIterations(run)
                  THEN runPair([iterated(w) EXCEPT !.runs[r].pair = 1,
                                                   !.runs[r].iter = @ + 1], r)
                  ELSE finishRun(iterated(w), r)
    ELSE
      LET fromRule == rules[i]
          toRule == rules[i + 1]
          seg == parseKeyframeTime(toRule.keyText, run.cfg.duration)
                   - parseKeyframeTime(fromRule.keyText, run.cfg.duration)
          refs == \E k \in Keys : fromRule.style[k] = Ref \/ toRule.style[k] = Ref
          w1 == IF refs THEN [w EXCEPT !.c = getAssetCache(w.c, assetRules, "tex", FALSE)]
                ELSE w
          w2 == launchKeys(w1, r, i, fromRule, toRule, seg, 1)
      IN
      IF seg <= 0 THEN runPair(nextPair(w, r), r)
      ELSE IF pairDone(w2.runs[r]) THEN runPair(nextPair(w2, r), r)
      ELSE [w2 EXCEPT !.runs[r].susp = TRUE]

\* KeyFrameAnimationLerp(object, animationObj), called in slot r
KeyFrameAnimationLerp(w, r, cfg) ==
  IF cfg.name = "" \/ cfg.duration = 0 \/ getAnimationMap(cfg.name) = <<>>
    THEN finishRun(w, r)
    ELSE runPair([w EXCEPT !.iterations = 0,
                           !.runs[r] = [NoRun EXCEPT !.active = TRUE, !.cfg = cfg,
                                                     !.iter = 1, !.pair = 1]], r)

FreeSlot(rs) == Min({r \in 1..MaxRuns : ~rs[r].active})

startsRunAlways(w) == TRUE

\* _apply_rule: `if (object.animation) { if (!object.userData._animationRunning)`
startsRun(w) == ~w.running

\* the tail of _apply_rule, with object.animation = cfg
applyAnimation(w, cfg) ==
  IF cfg # NoAnimation /\ startsRun(w)
    THEN KeyFrameAnimationLerp([w EXCEPT !.running = TRUE], FreeSlot(w.runs), cfg)
    ELSE w

\* one scheduled step of animateLerp, then the microtasks its completion frees
RECURSIVE frameSteps(_, _)
frameSteps(w, d) ==
  IF w.todo = <<>> \/ w.hung THEN w
  ELSE
    LET a == Head(w.todo)
        el == a.el + d
        dur == [finite |-> TRUE, ms |-> a.dur]
        w1 == applyUpdate(w, a.run, a.pair, a.key, stepValue(a.f, a.t, el, dur))
        w2 == [w1 EXCEPT !.todo = Tail(@)]
    IN
    IF stepAgain(el, dur)
      THEN frameSteps([w2 EXCEPT !.anims = Append(@, [a EXCEPT !.el = el])], d)
      ELSE LET w3 == [w2 EXCEPT !.runs[a.run].keys[a.key] = "done"] IN
           IF w3.runs[a.run].active /\ pairDone(w3.runs[a.run])
             THEN frameSteps(runPair(nextPair(w3, a.run), a.run), d)
             ELSE frameSteps(w3, d)

settled(v, id, result) == IF v = Promised(id) THEN result ELSE v

\* the continuations of the promise of load id, which settled to `result`
RECURSIVE resumeKeys(_, _, _, _, _)
resumeKeys(w, r, n, id, result) ==
  IF r > MaxRuns \/ w.hung THEN w
  ELSE IF n > Len(KeyOrder) THEN resumeKeys(w, r + 1, 1, id, result)
  ELSE
    LET key == KeyOrder[n]
        run == w.runs[r]
        v == run.vals[key]
        rules == sortRules(getAnimationMap(run.cfg.name), run.cfg.duration)
        seg == parseKeyframeTime(rules[run.pair + 1].keyText, run.cfg.duration)
                 - parseKeyframeTime(rules[run.pair].keyText, run.cfg.duration)
    IN
    IF run.active /\ run.keys[key] = "await" /\ (v.f = Promised(id) \/ v.t = Promised(id))
      THEN LET w1 == startAnim(w, r, run.pair, key, settled(v.f, id, result),
                               settled(v.t, id, result), seg)
           IN IF pairDone(w1.runs[r])
                THEN resumeKeys(runPair(nextPair(w1, r), r), r, n + 1, id, result)
                ELSE resumeKeys(w1, r, n + 1, id, result)
      ELSE resumeKeys(w, r, n + 1, id, result)

NoKeyOp ==
  [op |-> "none", hadRun |-> FALSE, started |-> FALSE, iterations |-> 0,
   finished |-> FALSE]

KeyIdle ==
  /\ keyframes = <<>>
  /\ animation = NoAnimation
  /\ animationRunning = FALSE
  /\ runs = [r \in 1..MaxRuns |-> NoRun]
  /\ anims = <<>>
  /\ props = [k \in Keys |-> Num(0)]
  /\ hung = FALSE
  /\ keyUpdates = <<>>
  /\ lastKey = NoKeyOp

\* a node that no rule has been applied to, with one of the @keyframes rules
KeyInitWith(sets) ==
  /\ keyframes \in sets
  /\ animation = NoAnimation
  /\ animationRunning = FALSE
  /\ runs = [r \in 1..MaxRuns |-> NoRun]
  /\ anims = <<>>
  /\ props = [k \in Keys |-> Num(0)]
  /\ hung = FALSE
  /\ keyUpdates = <<>>
  /\ lastKey = NoKeyOp

KeyInit == KeyInitWith(KeyframeSets)

TheWorld(todo) ==
  World(Cache(assetMap, inFlight, promise, issuedLoads, {}), runs, anims, todo, props,
        animationRunning, hung, <<>>, lastKey.iterations)

ActiveRuns(rs) == {r \in 1..MaxRuns : rs[r].active}

\* the task ends in the world w
KeyBecomes(w, op) ==
  /\ assetMap' = w.c.map
  /\ inFlight' = w.c.flight
  /\ promise' = w.c.promise
  /\ issuedLoads' = w.c.issued
  /\ runs' = w.runs
  /\ anims' = w.anims
  /\ props' = w.props
  /\ animationRunning' = w.running
  /\ hung' = w.hung
  /\ keyUpdates' = w.updates
  /\ lastKey' = [op |-> op, hadRun |-> ActiveRuns(runs) # {},
                  started |-> ActiveRuns(w.runs) \ ActiveRuns(runs) # {},
                  iterations |-> w.iterations, finished |-> w.finished]
  /\ UNCHANGED <<keyframes, assetRules, failedLoad, lastAsset>>

\* a repaint applies a rule to the node: _apply_rule(rule, object), where the
\* rule declares no --animation (keep) or one that parses to cfg
Repaint(keep, cfg) ==
  /\ ~hung
  /\ \E r \in 1..MaxRuns : ~runs[r].active
  /\ LET a == IF keep THEN animation ELSE cfg IN
     /\ animation' = a
     /\ KeyBecomes(applyAnimation(TheWorld(<<>>), a), "repaint")

\* a display refresh: the scheduled animateLerp steps run in order
KeyRefresh(d) ==
  /\ ~hung
  /\ anims # <<>>
  /\ KeyBecomes(frameSteps([TheWorld(anims) EXCEPT !.anims = <<>>], d), "refresh")
  /\ UNCHANGED animation

\* the load of "tex" fulfils
KeyLoadFulfilled(l) ==
  /\ ~hung
  /\ l \in inFlight
  /\ LET w == TheWorld(<<>>)
         c == [w.c EXCEPT !.map[l.name] = Value(l.id), !.flight = @ \ {l},
                          !.promise[l.id] = "value"]
     IN KeyBecomes(resumeKeys([w EXCEPT !.c = c], 1, 1, l.id, Other(l.id)), "fulfilled")
  /\ UNCHANGED animation

\* the load of "tex" rejects; a later lookup loads it again
KeyLoadRejected(l) ==
  /\ ~hung
  /\ l \in inFlight
  /\ issuedLoads < MaxLoads
  /\ LET w == TheWorld(<<>>)
         c == [w.c EXCEPT !.map = evict(@, l.name), !.flight = @ \ {l},
                          !.promise[l.id] = "null"]
     IN KeyBecomes(resumeKeys([w EXCEPT !.c = c], 1, 1, l.id, NullValue), "rejected")
  /\ UNCHANGED animation

(***************************************************************************)
(* cell.js: one Cell (a host) over a small document.  Source elements are  *)
(* numbered; Root is the <cell> element itself.  Scene-graph nodes are     *)
(* numbered in the order ScanElement creates them; Scene is loadedScene.   *)
(***************************************************************************)
cellVars ==
  <<dom, allConvictsByDom, convictRef, nodeEl, nodeParent, nextNode, namedConvicts,
    classyConvicts, constantConvicts, layers, extraParams, styleSheet,
    mutationRecords, last_cast_caught, focusedCamera, pendingStyleRepaint,
    styleRequests, styleNotices, paints, events, gone, lastCell, attributes, domId,
    classList>>

Elems == {1, 2, 3, 4}

Root == 0

Scene == 0

\* parentElement / convict.parent is null
NoParent == -1

Element(tag, id, classes, handler, style) ==
  [tag |-> tag, id |-> id, classes |-> classes, handler |-> handler, style |-> style,
   render |-> FALSE, broken |-> FALSE]

\* the element with a style attribute that declares `--position-x-w: 1`, a
\* path that leads through the number position.x
Broken(el) == [el EXCEPT !.style = TRUE, !.broken = TRUE]

\* a camera element, with or without the `render` attribute
Camera(render) ==
  [tag |-> "camera", id |-> "", classes |-> <<>>, handler |-> FALSE, style |-> FALSE,
   render |-> render, broken |-> FALSE]

\* the camera of a cell whose camera element is outside the modelled document
OtherCamera == MaxNodes + 1

\* the source elements: <mesh id="a" onclick>, <div>, <mesh class="c" style>,
\* <mesh id="b" class="c">
ElementOf ==
  <<Element("mesh", "a", <<>>, TRUE, FALSE), Element("div", "", <<>>, FALSE, FALSE),
    Element("mesh", "", <<"c">>, FALSE, TRUE), Element("mesh", "b", <<"c">>, FALSE, FALSE)>>

Sel(t, n, p) == [t |-> t, n |-> n, p |-> p]

\* the inline declarations of an element, applied as a rule
Inline == Sel("inline", "", "")

Selectors ==
  {Sel("id", "a", ""), Sel("class", "c", ""), Sel("class", "c", ":hover"),
   Sel("id", "b", ":active")}

Range(s) == {s[i] : i \in 1..Len(s)}

\* ConvertDomToObject(elm): null for a tag that is no THREE class
ConvertDomToObject(el) == el.tag \in {"mesh", "camera"}

parentElement(d, e) ==
  IF \E p \in DOMAIN d : e \in Range(d[p])
    THEN CHOOSE p \in DOMAIN d : e \in Range(d[p])
    ELSE NoParent

RECURSIVE IsAttached(_, _)
IsAttached(d, e) ==
  IF e = Root THEN TRUE
  ELSE IF e = NoParent THEN FALSE
  ELSE IsAttached(d, parentElement(d, e))

RECURSIVE Subtree(_, _)
Subtree(d, e) == {e} \cup UNION {Subtree(d, c) : c \in Range(d[e])}

Without(s, x) == SelectSeq(s, LAMBDA y : y # x)

\* getCSSRule(selector)
getCSSRule(sheet, sel) == sel \in sheet

IndexOf(arry, item) ==
  IF item \in Range(arry) THEN Min({i \in 1..Len(arry) : arry[i] = item}) ELSE 0

\* a removal that removes nothing
fastRemoveNothing(arry, item) == arry

\* utils.js fastRemove_arry: the last entry takes the place of the removed one
fastRemove_arry(arry, item) ==
  LET index == IndexOf(arry, item) IN
  IF index = 0 THEN arry
  ELSE SubSeq([arry EXCEPT ![index] = arry[Len(arry)]], 1, Len(arry) - 1)

hasActiveRule(sheet, classes) ==
  \E i \in 1..Len(classes) : getCSSRule(sheet, Sel("class", classes[i], ":active"))

\* a scan that takes no element for mapped
alreadyMappedNever(H, e) == FALSE

\* this._allConvictsByDom.has(elm)
alreadyMapped(H, e) == H.map[e] # 0

RECURSIVE ScanElement(_, _)
RECURSIVE ScanChildren(_, _, _)
\* Cell.ScanElement(elm)
ScanElement(H, e) ==
  IF alreadyMapped(H, e) THEN H
  ELSE IF ~ConvertDomToObject(H.el[e]) THEN ScanChildren(H, e, 1)
  ELSE
    LET instance == H.next
        p == parentElement(H.dom, e)
        parentObj == IF p \in Elems /\ H.map[p] # 0 THEN H.map[p] ELSE Scene
        el == H.el[e]
        byId == el.id # "" /\ getCSSRule(H.sheet, Sel("id", el.id, ":active"))
        byClass == el.classes # <<>> /\ hasActiveRule(H.sheet, el.classes)
        H1 == [H EXCEPT !.next = instance + 1,
                        !.camera = IF el.tag = "camera" /\ (el.render \/ @ = 0)
                                     THEN instance ELSE @,
                        !.domId[instance] = el.id,
                        !.classList[instance] = el.classes,
                        !.nodeEl[instance] = e,
                        !.nodeParent[instance] = parentObj,
                        !.named = IF el.id # "" THEN Append(@, instance) ELSE @,
                        !.classy = IF el.classes # <<>> THEN Append(@, instance) ELSE @,
                        !.constant = IF byId \/ byClass THEN Append(@, instance) ELSE @,
                        !.map[e] = instance]
        H2 == ScanChildren(H1, e, 1)
    IN [H2 EXCEPT !.backref[e] = IF @ = 0 THEN H2.map[e] ELSE @]

ScanChildren(H, e, i) ==
  IF i > Len(H.dom[e]) THEN H
  ELSE ScanChildren(ScanElement(H, H.dom[e][i]), e, i + 1)

\* convict.children, in insertion order
childrenOf(H, n) ==
  LET kids == {c \in 1..(H.next - 1) : H.nodeParent[c] = n}
      ith[i \in 0..Cardinality(kids)] ==
        IF i = 0 THEN <<>>
        ELSE Append(ith[i - 1], Min(kids \ Range(ith[i - 1])))
  IN ith[Cardinality(kids)]

\* the nodes the host maps to e and to the elements below e
MappedBelow(H, e) == {H.map[x] : x \in Subtree(H.dom, e)} \ {0}

\* Element.remove(): a childList record when the element leaves the observed subtree
domRemove(H, e) ==
  LET p == parentElement(H.dom, e) IN
  IF p = NoParent THEN H
  ELSE [H EXCEPT !.dom[p] = Without(@, e),
                 !.records = IF IsAttached(H.dom, e)
                               THEN Append(@, [added |-> <<>>, removed |-> <<e>>,
                                               doomed |-> MappedBelow(H, e)])
                               ELSE @]

RECURSIVE removeConvict(_, _)
RECURSIVE removeChildren(_, _, _)
\* Cell.removeConvict(convict); 0 is undefined
removeConvict(H, convict) ==
  IF convict = 0 THEN H
  ELSE
    LET H1 == removeChildren(H, childrenOf(H, convict), 1)
        H2 == [H1 EXCEPT !.classy = fastRemove_arry(@, convict),
                         !.named = fastRemove_arry(@, convict),
                         !.constant = fastRemove_arry(@, convict)]
        e == H2.nodeEl[convict]
        H3 == domRemove([H2 EXCEPT !.map[e] = 0], e)
    IN [H3 EXCEPT !.nodeParent[convict] = NoParent]

removeChildren(H, kids, i) ==
  IF i > Len(kids) THEN H
  ELSE removeChildren(removeConvict(H, H.map[H.nodeEl[kids[i]]]), kids, i + 1)

\* artist.js: the test of _apply_rule for the picking layer
pickable(H, n) ==
  LET classes == H.classList[n]
      id == H.domId[n]
  IN
  \/ H.el[H.nodeEl[n]].handler
  \/ \E i \in 1..Len(classes) :
       \/ getCSSRule(H.sheet, Sel("class", classes[i], ":hover"))
       \/ getCSSRule(H.sheet, Sel("class", classes[i], ":focus"))
  \/ id # "" /\ getCSSRule(H.sheet, Sel("id", id, ":focus"))
  \/ id # "" /\ getCSSRule(H.sheet, Sel("id", id, ":hover"))

deep_searchParmsNeverThrows(H, n, sel) == FALSE

\* deep_searchParms(object, path) in strict code: `o[k] = {}` on a number
\* raises a TypeError
deep_searchParmsThrows(H, n, sel) == sel = Inline /\ H.el[H.nodeEl[n]].broken

\* artist.js _apply_rule(rule, object) as far as the host's state goes; an
\* error it raises is propagating when `failed` is set
apply_rule(H, n, sel) ==
  [H EXCEPT !.layers = IF pickable(H, n) THEN @ \cup {n} ELSE @ \ {n},
            !.paints = Append(@, [n |-> n, sel |-> sel]),
            !.failed = deep_searchParmsThrows(H, n, sel)]

\* applies the rules of the list that exist, in order
RECURSIVE paintList(_, _, _)
paintList(H, list, i) ==
  IF i > Len(list) \/ H.failed THEN H
  ELSE IF list[i].sel = Inline \/ getCSSRule(H.sheet, list[i].sel)
    THEN paintList(apply_rule(H, list[i].n, list[i].sel), list, i + 1)
    ELSE paintList(H, list, i + 1)

classRules(n, classes, pseudo) ==
  [i \in 1..Len(classes) |-> [n |-> n, sel |-> Sel("class", classes[i], pseudo)]]

idRules(n, id, pseudo) ==
  IF id = "" THEN <<>> ELSE <<[n |-> n, sel |-> Sel("id", id, pseudo)]>>

RECURSIVE extraClassRules(_, _, _, _)
extraClassRules(n, classes, extra, i) ==
  IF i > Len(extra) THEN <<>>
  ELSE classRules(n, classes, extra[i]) \o extraClassRules(n, classes, extra, i + 1)

RECURSIVE extraIdRules(_, _, _, _)
extraIdRules(n, id, extra, i) ==
  IF i > Len(extra) THEN <<>>
  ELSE idRules(n, id, extra[i]) \o extraIdRules(n, id, extra, i + 1)

\* the rules paintSpecificMuse(muse) looks up, in its order
museRules(H, n) ==
  classRules(n, H.classList[n], "") \o idRules(n, H.domId[n], "")
    \o extraClassRules(n, H.classList[n], H.extra[n], 1)
    \o extraIdRules(n, H.domId[n], H.extra[n], 1)
    \o (IF H.el[H.nodeEl[n]].style THEN <<[n |-> n, sel |-> Inline]>> ELSE <<>>)

paintSpecificMuse(H, n) == paintList(H, museRules(H, n), 1)

RECURSIVE paintEach(_, _, _)
paintEach(H, nodes, i) ==
  IF i > Len(nodes) \/ H.failed THEN H
  ELSE paintEach(paintSpecificMuse(H, nodes[i]), nodes, i + 1)

RECURSIVE cellClassRules(_, _, _)
cellClassRules(H, pseudoOf, i) ==
  IF i > Len(H.classy) THEN <<>>
  ELSE LET n == H.classy[i] IN
       (IF pseudoOf THEN extraClassRules(n, H.classList[n], H.extra[n], 1)
        ELSE classRules(n, H.classList[n], ""))
         \o cellClassRules(H, pseudoOf, i + 1)

RECURSIVE cellIdRules(_, _, _)
cellIdRules(H, pseudoOf, i) ==
  IF i > Len(H.named) THEN <<>>
  ELSE LET n == H.named[i] IN
       (IF pseudoOf THEN extraIdRules(n, H.domId[n], H.extra[n], 1)
        ELSE idRules(n, H.domId[n], ""))
         \o cellIdRules(H, pseudoOf, i + 1)

\* paintCell(muse): the base class and id rules of every indexed node
paintCell(H) == paintList(H, cellClassRules(H, FALSE, 1) \o cellIdRules(H, FALSE, 1), 1)

\* paintExtraCell(muse): the pseudo-state rules of every indexed node
paintExtraCell(H) == paintList(H, cellClassRules(H, TRUE, 1) \o cellIdRules(H, TRUE, 1), 1)

\* paintConstantMuse(muse)
paintConstantMuse(H, n) ==
  paintList(H, classRules(n, H.classList[n], ":active")
                 \o idRules(n, H.domId[n], ":active"), 1)

\* the _styleObserver callback for one childList record
RECURSIVE addedNodes(_, _, _)
addedNodes(H, added, i) ==
  IF i > Len(added) \/ H.failed THEN H
  ELSE LET H1 == ScanElement(H, added[i])
           convict == H1.map[added[i]]
       IN addedNodes(IF convict # 0 THEN paintSpecificMuse(H1, convict) ELSE H1,
                     added, i + 1)

RECURSIVE removedNodes(_, _, _)
removedNodes(H, removed, i) ==
  IF i > Len(removed) \/ H.failed THEN H
  ELSE removedNodes(removeConvict(H, H.map[removed[i]]), removed, i + 1)

\* paintConvict(convictElm, cell): the inline declarations of a mapped element
paintConvict(H, e) ==
  IF H.map[e] # 0 THEN apply_rule(H, H.map[e], Inline) ELSE H

\* the _styleObserver callback for one attributes record; target.convict is
\* the back-reference defined on the element
attributeChanged(H, target, attributeName) ==
  LET convict == H.backref[target] IN
  IF convict = 0 THEN H
  ELSE IF attributeName = "id" THEN [H EXCEPT !.domId[convict] = H.el[target].id]
  ELSE IF attributeName = "class"
    THEN [H EXCEPT !.classList[convict] = H.el[target].classes]
  ELSE paintConvict(H, target)

IsAttributes(mutation) == "attributeName" \in DOMAIN mutation

RECURSIVE styleObserver(_, _, _)
styleObserver(H, mutationList, i) ==
  IF i > Len(mutationList) \/ H.failed THEN H
  ELSE IF IsAttributes(mutationList[i])
    THEN styleObserver(attributeChanged(H, mutationList[i].target,
                                        mutationList[i].attributeName),
                       mutationList, i + 1)
  ELSE styleObserver(removedNodes(addedNodes(H, mutationList[i].added, 1),
                                  mutationList[i].removed, 1),
                     mutationList, i + 1)

Host(d, sheet, camera) ==
  [dom |-> d, map |-> [e \in Elems |-> 0], backref |-> [e \in Elems |-> 0],
   nodeEl |-> [n \in 1..MaxNodes |-> 0], nodeParent |-> [n \in 1..MaxNodes |-> NoParent],
   next |-> 1, named |-> <<>>, classy |-> <<>>, constant |-> <<>>, layers |-> {},
   extra |-> [n \in 1..MaxNodes |-> <<>>], sheet |-> sheet, records |-> <<>>,
   lastHit |-> 0, camera |-> camera, pending |-> FALSE, requests |-> 0,
   paints |-> <<>>, events |-> <<>>, failed |-> FALSE, el |-> ElementOf,
   domId |-> [n \in 1..MaxNodes |-> ""], classList |-> [n \in 1..MaxNodes |-> <<>>]]

\* the constructor: _ScanCell(), then paintCell(this)
Construct(H) == paintCell(ScanChildren(H, Root, 1))

NewCell(d, sheet, camera) == Construct(Host(d, sheet, camera))

ThisCell ==
  [dom |-> dom, map |-> allConvictsByDom, backref |-> convictRef, nodeEl |-> nodeEl,
   nodeParent |-> nodeParent, next |-> nextNode, named |-> namedConvicts,
   classy |-> classyConvicts, constant |-> constantConvicts, layers |-> layers,
   extra |-> extraParams, sheet |-> styleSheet, records |-> mutationRecords,
   lastHit |-> last_cast_caught, camera |-> focusedCamera,
   pending |-> pendingStyleRepaint, requests |-> styleRequests,
   paints |-> <<>>, events |-> <<>>, failed |-> FALSE, el |-> attributes, domId |-> domId,
   classList |-> classList]

NoCellOp ==
  [op |-> "none", hit |-> 0, prev |-> 0, notices |-> 0, repaints |-> 0, flushed |-> FALSE,
   target |-> 0, mapped |-> FALSE, again |-> FALSE, created |-> 0, before |-> 0,
   changed |-> FALSE, pressed |-> FALSE]

CellIs(H) ==
  /\ dom = H.dom
  /\ allConvictsByDom = H.map
  /\ convictRef = H.backref
  /\ nodeEl = H.nodeEl
  /\ nodeParent = H.nodeParent
  /\ nextNode = H.next
  /\ namedConvicts = H.named
  /\ classyConvicts = H.classy
  /\ constantConvicts = H.constant
  /\ layers = H.layers
  /\ extraParams = H.extra
  /\ styleSheet = H.sheet
  /\ mutationRecords = H.records
  /\ last_cast_caught = H.lastHit
  /\ focusedCamera = H.camera
  /\ pendingStyleRepaint = H.pending
  /\ styleRequests = H.requests
  /\ paints = H.paints
  /\ events = H.events
  /\ attributes = H.el
  /\ domId = H.domId
  /\ classList = H.classList
  /\ styleNotices = 0
  /\ gone = {}
  /\ lastCell = NoCellOp

\* the handler ends with the host in state H
CellBecomes(H) ==
  /\ dom' = H.dom
  /\ allConvictsByDom' = H.map
  /\ convictRef' = H.backref
  /\ nodeEl' = H.nodeEl
  /\ nodeParent' = H.nodeParent
  /\ nextNode' = H.next
  /\ namedConvicts' = H.named
  /\ classyConvicts' = H.classy
  /\ constantConvicts' = H.constant
  /\ layers' = H.layers
  /\ extraParams' = H.extra
  /\ styleSheet' = H.sheet
  /\ mutationRecords' = H.records
  /\ last_cast_caught' = H.lastHit
  /\ focusedCamera' = H.camera
  /\ pendingStyleRepaint' = H.pending
  /\ styleRequests' = H.requests
  /\ paints' = H.paints
  /\ events' = H.events
  /\ attributes' = H.el
  /\ domId' = H.domId
  /\ classList' = H.classList

Tree(r, c1, c2, c3, c4) ==
  [e \in {Root} \cup Elems |->
     IF e = Root THEN r ELSE IF e = 1 THEN c1 ELSE IF e = 2 THEN c2
     ELSE IF e = 3 THEN c3 ELSE c4]

\* the documents a cell is constructed over
Documents ==
  { Tree(<<1>>, <<2>>, <<3>>, <<>>, <<>>),
    Tree(<<1, 4>>, <<3>>, <<>>, <<>>, <<>>),
    Tree(<<2>>, <<>>, <<3, 4>>, <<>>, <<>>),
    Tree(<<3>>, <<>>, <<>>, <<4>>, <<1>>) }

StyleSheets == {{}, {Sel("id", "a", ""), Sel("class", "c", "")}, Selectors}

CellIdle == CellIs(Host(Tree(<<>>, <<>>, <<>>, <<>>, <<>>), {}, 0))

\* a cell constructed over one of the documents, with one of the stylesheets
CellInit(documents, sheets, cameras) ==
  \E d \in documents, sheet \in sheets, camera \in cameras :
    CellIs(NewCell(d, sheet, camera))

RECURSIVE MeshCount(_, _, _)
\* the nodes a scan of the added elements of the records can create
MeshCount(d, list, i) ==
  IF i > Len(list) THEN 0
  ELSE Cardinality({x \in UNION {Subtree(d, a) : a \in Range(list[i].added)} :
                      ConvertDomToObject(attributes[x])})
         + MeshCount(d, list, i + 1)

\* a script removes the attached element e from its parent
DomRemove(e) ==
  /\ Len(mutationRecords) < MaxRecords
  /\ e \in Elems
  /\ IsAttached(dom, e)
  /\ CellBecomes(domRemove(ThisCell, e))
  /\ lastCell' = [NoCellOp EXCEPT !.op = "remove", !.flushed = lastCell.flushed]
  /\ UNCHANGED <<styleNotices, gone>>

\* a script appends the detached element e to the attached element p
DomAdd(e, p) ==
  /\ Len(mutationRecords) < MaxRecords
  /\ parentElement(dom, e) = NoParent
  /\ IsAttached(dom, p)
  /\ LET record == [added |-> <<e>>, removed |-> <<>>, doomed |-> {}] IN
     /\ nextNode - 1 + MeshCount(dom, Append(mutationRecords, record), 1) <= MaxNodes
     /\ CellBecomes([ThisCell EXCEPT !.dom[p] = Append(@, e),
                                     !.records = Append(@, record)])
  /\ lastCell' = [NoCellOp EXCEPT !.op = "add", !.flushed = lastCell.flushed]
  /\ UNCHANGED <<styleNotices, gone>>

\* the microtask that delivers the pending records to the _styleObserver callback
DomFlush ==
  /\ mutationRecords # <<>>
  /\ LET H == styleObserver([ThisCell EXCEPT !.records = <<>>], mutationRecords, 1) IN
     /\ CellBecomes(H)
     /\ lastCell' = [NoCellOp EXCEPT !.op = "flush", !.created = H.next - nextNode,
                                     !.flushed = lastCell.flushed]
  /\ gone' = gone \cup UNION {mutationRecords[i].doomed : i \in 1..Len(mutationRecords)}
  /\ UNCHANGED styleNotices

\* the record of a change of an observed attribute of element e
AttributesRecord(e, name) ==
  [added |-> <<>>, removed |-> <<>>, doomed |-> {}, target |-> e, attributeName |-> name]

\* a script sets or removes the id of an attached element
SetId(e, id) ==
  /\ Len(mutationRecords) < MaxRecords
  /\ IsAttached(dom, e)
  /\ attributes[e].id # id
  /\ CellBecomes([ThisCell EXCEPT !.el[e].id = id,
                                  !.records = Append(@, AttributesRecord(e, "id"))])
  /\ lastCell' = [NoCellOp EXCEPT !.op = "id", !.target = e, !.flushed = lastCell.flushed]
  /\ UNCHANGED <<styleNotices, gone>>

\* a script sets or empties the class attribute of an attached element
SetClass(e, classes) ==
  /\ Len(mutationRecords) < MaxRecords
  /\ IsAttached(dom, e)
  /\ attributes[e].classes # classes
  /\ CellBecomes([ThisCell EXCEPT !.el[e].classes = classes,
                                  !.records = Append(@, AttributesRecord(e, "class"))])
  /\ lastCell' = [NoCellOp EXCEPT !.op = "class", !.target = e,
                                  !.flushed = lastCell.flushed]
  /\ UNCHANGED <<styleNotices, gone>>

\* a script sets or removes the style attribute of an attached element
SetStyle(e, style) ==
  /\ Len(mutationRecords) < MaxRecords
  /\ IsAttached(dom, e)
  /\ attributes[e].style # style
  /\ CellBecomes([ThisCell EXCEPT !.el[e].style = style,
                                  !.records = Append(@, AttributesRecord(e, "style"))])
  /\ lastCell' = [NoCellOp EXCEPT !.op = "style", !.target = e,
                                  !.flushed = lastCell.flushed]
  /\ UNCHANGED <<styleNotices, gone>>

\* what a scan can change: the map, the indices, the scene graph, the active camera
scanState(H) ==
  <<H.map, H.backref, H.named, H.classy, H.constant, H.nodeEl, H.nodeParent, H.next,
    H.camera, H.domId, H.classList>>

\* the elements below e (e included) a scan from e would make a node for
Unscanned(e) ==
  {x \in Subtree(dom, e) : ConvertDomToObject(attributes[x]) /\ allConvictsByDom[x] = 0}

\* a script calls cell.ScanElement(e)
ScanCall(e) ==
  /\ e \in Elems
  /\ nextNode - 1 + Cardinality(Unscanned(e)) + MeshCount(dom, mutationRecords, 1)
       <= MaxNodes
  /\ LET H == ScanElement(ThisCell, e)
         again == lastCell.op = "scan" /\ lastCell.target = e
     IN /\ CellBecomes(H)
        /\ lastCell' = [NoCellOp EXCEPT !.op = "scan", !.target = e,
                                        !.mapped = allConvictsByDom[e] # 0,
                                        !.again = again,
                                        !.before = IF again THEN lastCell.created ELSE 0,
                                        !.created = H.next - nextNode,
                                        !.changed = scanState(H) # scanState(ThisCell),
                                        !.flushed = lastCell.flushed]
  /\ UNCHANGED <<styleNotices, gone>>

(***************************************************************************)
(* NoScope.js: the pointer handlers of a cell.                             *)
(***************************************************************************)
\* addFlag(arr, flag)
addFlag(H, n, flag) ==
  IF flag \in Range(H.extra[n]) THEN H ELSE [H EXCEPT !.extra[n] = Append(@, flag)]

\* delFlag(arr, flag)
delFlag(H, n, flag) == [H EXCEPT !.extra[n] = fastRemove_arry(@, flag)]

\* domEl.on<type>?.call(domEl, synth): the event is offered to the element
dispatch(H, type, n) ==
  [H EXCEPT !.events =
     Append(@, [type |-> type, target |-> n,
                hover |-> {m \in 1..MaxNodes : ":hover" \in Range(H.extra[m])}])]

RECURSIVE InScene(_, _)
InScene(H, n) ==
  IF n = Scene THEN TRUE
  ELSE IF n = NoParent THEN FALSE
  ELSE InScene(H, H.nodeParent[n])

\* what raycaster.intersectObjects(scene.children, true)[0] can be: a node of
\* the scene graph on layer 3
Hittable(H) == {n \in H.layers : InScene(H, n)}

hadLastHitNever(H) == FALSE

\* `if (lastHit)`
hadLastHit(H) == H.lastHit # 0

leaveLastHitHovered(H) ==
  LET lastHit == H.lastHit IN
  paintSpecificMuse(dispatch(H, "cellmouseleave", lastHit), lastHit)

\* the pointer leaves lastHit
leaveLastHit(H) ==
  LET lastHit == H.lastHit IN
  paintSpecificMuse(dispatch(delFlag(H, lastHit, ":hover"), "cellmouseleave", lastHit),
                    lastHit)

\* default_onCellPointerMove_method(domEvt, cell), the ray hitting `hit` first
default_onCellPointerMove_method(H, hit) ==
  IF H.camera = 0 THEN H
  ELSE IF hit # 0
    THEN LET H1 == IF hit # H.lastHit
                     THEN dispatch([(IF hadLastHit(H) THEN leaveLastHit(H) ELSE H)
                                      EXCEPT !.lastHit = hit],
                                   "cellmouseenter", hit)
                     ELSE H
         IN paintExtraCell(dispatch(addFlag(H1, hit, ":hover"), "cellhover", hit))
    ELSE IF hadLastHit(H) THEN [leaveLastHit(H) EXCEPT !.lastHit = 0]
    ELSE H

\* default_onCellClick_method(domEvt, cell)
default_onCellClick_method(H) ==
  IF H.lastHit = 0 THEN H
  ELSE paintExtraCell(dispatch(addFlag(H, H.lastHit, ":focus"), "cellclick", H.lastHit))

\* default_onCellMouseDown_method(domEvt, cell)
default_onCellMouseDown_method(H) ==
  IF H.lastHit = 0 THEN H
  ELSE paintExtraCell(dispatch(addFlag(H, H.lastHit, ":active"), "celldown", H.lastHit))

\* default_onCellMouseUp_method(domEvt, cell)
default_onCellMouseUp_method(H) ==
  IF H.lastHit = 0 THEN H
  ELSE paintExtraCell(dispatch(delFlag(H, H.lastHit, ":active"), "cellup", H.lastHit))

default_onCellDoubleClick_noFocus(H) ==
  IF H.lastHit = 0 THEN H
  ELSE paintExtraCell(dispatch(H, "celldblclick", H.lastHit))

\* default_onCellDoubleClick_method(domEvt, cell)
default_onCellDoubleClick_method(H) ==
  IF H.lastHit = 0 THEN H
  ELSE paintExtraCell(dispatch(addFlag(H, H.lastHit, ":focus"), "celldblclick", H.lastHit))

\* default_onCellContextMenu_method(domEvt, cell)
default_onCellContextMenu_method(H) ==
  IF H.lastHit = 0 THEN H
  ELSE paintExtraCell(dispatch(H, "cellcontextmenu", H.lastHit))

\* the nodes that carry the active flag
Active == {n \in 1..MaxNodes : ":active" \in Range(extraParams[n])}

\* a mousemove event on the cell element; `pressed` tells that the button
\* went down when no node was active and only the pointer has moved since
PointerMove(hit) ==
  /\ hit \in Hittable(ThisCell) \cup {0}
  /\ CellBecomes(default_onCellPointerMove_method(ThisCell, hit))
  /\ lastCell' = [NoCellOp EXCEPT !.op = "move", !.hit = hit, !.prev = last_cast_caught,
                                  !.pressed = lastCell.pressed,
                                  !.flushed = lastCell.flushed]
  /\ UNCHANGED <<styleNotices, gone>>

\* a click, dblclick, mousedown, mouseup or contextmenu event on the cell element
PointerButton(type) ==
  /\ CellBecomes(IF type = "click" THEN default_onCellClick_method(ThisCell)
                 ELSE IF type = "dblclick" THEN default_onCellDoubleClick_method(ThisCell)
                 ELSE IF type = "contextmenu" THEN default_onCellContextMenu_method(ThisCell)
                 ELSE IF type = "mousedown" THEN default_onCellMouseDown_method(ThisCell)
                 ELSE default_onCellMouseUp_method(ThisCell))
  /\ lastCell' = [NoCellOp EXCEPT !.op = type, !.prev = last_cast_caught,
                                  !.pressed = IF type = "mousedown" THEN Active = {}
                                              ELSE type = "mouseup" /\ lastCell.pressed,
                                  !.flushed = lastCell.flushed]
  /\ UNCHANGED <<styleNotices, gone>>

(***************************************************************************)
(* cell.js: the _styleElemObserver callback and the display refresh.       *)
(***************************************************************************)
styleRepaintNeverPending(H) == FALSE

\* `if (this._pendingStyleRepaint) return;`
styleRepaintPending(H) == H.pending

\* the _styleElemObserver callback
styleElemObserver(H) ==
  IF styleRepaintPending(H) THEN H
  ELSE [H EXCEPT !.pending = TRUE, !.requests = @ + 1]

\* the callback _styleElemObserver hands to requestAnimationFrame
styleRepaint(H) ==
  LET H1 == paintCell([H EXCEPT !.pending = FALSE])
  IN paintEach(H1, H1.classy \o H1.named, 1)

RECURSIVE styleRepaints(_, _)
styleRepaints(H, k) == IF k = 0 THEN H ELSE styleRepaints(styleRepaint(H), k - 1)

RECURSIVE paintConstants(_, _)
paintConstants(H, i) ==
  IF i > Len(H.constant) \/ H.failed THEN H
  ELSE paintConstants(paintConstantMuse(H, H.constant[i]), i + 1)

\* a script rewrites the text of a <style> element, adding or dropping the
\* rule for sel; the _styleElemObserver callback runs when the script ends
StyleMutation(sel) ==
  /\ styleNotices < MaxNotices
  /\ CellBecomes(styleElemObserver(
       [ThisCell EXCEPT !.sheet = IF sel \in @ THEN @ \ {sel} ELSE @ \cup {sel}]))
  /\ styleNotices' = styleNotices + 1
  /\ lastCell' = [NoCellOp EXCEPT !.op = "style", !.flushed = lastCell.flushed]
  /\ UNCHANGED gone

\* a display refresh: the tick of _anim, then the requested stylesheet repaints
Refresh ==
  /\ CellBecomes(styleRepaints([paintConstants(ThisCell, 1) EXCEPT !.requests = 0],
                               styleRequests))
  /\ styleNotices' = 0
  /\ lastCell' = [NoCellOp EXCEPT !.op = "refresh", !.notices = styleNotices,
                                  !.repaints = styleRequests,
                                  !.flushed = lastCell.flushed \/ styleRequests > 0]
  /\ UNCHANGED gone

(***************************************************************************)
(* cell.js: the render loop (_anim), the per-frame callbacks and dispose.  *)
(* A per-frame callback is the cell's own always-repaint pass              *)
(* ("constants"), a function that returns without touching the cell        *)
(* ("plain"), or a function that calls cell.dispose() ("dispose").         *)
(***************************************************************************)
loopVars == <<running, frameRequests, updateFunds, lastTick>>

NoTick ==
  [op |-> "none", wasRunning |-> TRUE, ticks |-> 0, funds |-> <<>>, log |-> <<>>,
   camera |-> FALSE, repaints |-> 0]

\* the loop after the constructor: its first _anim() call has requested a frame
LoopInit ==
  /\ running = TRUE
  /\ frameRequests = 1
  /\ updateFunds = <<"constants">>
  /\ lastTick = NoTick

\* Cell.dispose() as far as the loop and the observers go: disconnect() drops
\* the records an observer has not delivered
dispose(T) == [T EXCEPT !.running = FALSE, !.H.records = <<>>]

\* updateFunds.forEach(update => update())
RECURSIVE runCallbacks(_, _, _)
runCallbacks(T, funds, i) ==
  IF i > Len(funds) THEN T
  ELSE LET T1 == IF funds[i] = "constants" THEN [T EXCEPT !.H = paintConstants(@, 1)]
                 ELSE IF funds[i] = "dispose" THEN dispose(T)
                 ELSE T
       IN runCallbacks([T1 EXCEPT !.log = Append(@, funds[i])], funds, i + 1)

\* a loop that does not look at _running
stillRunningAlways(T) == TRUE

\* `if (!this._running) return;`
stillRunning(T) == T.running

\* this._anim(): one tick of the loop
anim(T, funds) ==
  IF ~stillRunning(T) THEN T
  ELSE LET T1 == runCallbacks(T, funds, 1) IN
       [T1 EXCEPT !.requests = @ + 1,
                  !.log = @ \o <<"request">>
                            \o (IF T1.H.camera # 0 THEN <<"render">> ELSE <<>>)]

\* the _anim callbacks the display refresh serves
RECURSIVE anims_(_, _, _)
anims_(T, funds, k) == IF k = 0 THEN T ELSE anims_(anim(T, funds), funds, k - 1)

\* cell.addUpdateFunction(fn)
addUpdateFunction(fn) ==
  /\ Len(updateFunds) < MaxCallbacks
  /\ updateFunds' = Append(updateFunds, fn)
  /\ lastTick' = [NoTick EXCEPT !.op = "add", !.wasRunning = running]
  /\ UNCHANGED <<running, frameRequests, cellVars>>

\* cell.removeUpdateFunction(fn): the first callback registered for fn
removeUpdateFunction(fn) ==
  /\ fn \in Range(updateFunds)
  /\ LET idx == IndexOf(updateFunds, fn) IN
     updateFunds' = SubSeq(updateFunds, 1, idx - 1)
                      \o SubSeq(updateFunds, idx + 1, Len(updateFunds))
  /\ lastTick' = [NoTick EXCEPT !.op = "remove", !.wasRunning = running]
  /\ UNCHANGED <<running, frameRequests, cellVars>>

\* a script calls cell.dispose()
Dispose ==
  /\ running
  /\ LET T == dispose([H |-> ThisCell, running |-> running]) IN
     /\ running' = T.running
     /\ CellBecomes(T.H)
  /\ lastTick' = [NoTick EXCEPT !.op = "dispose", !.wasRunning = running]
  /\ lastCell' = [NoCellOp EXCEPT !.op = "dispose", !.flushed = lastCell.flushed]
  /\ UNCHANGED <<frameRequests, updateFunds, styleNotices, gone>>

\* a script rewrites a <style> element while the _styleElemObserver is connected
LoopStyleMutation(sel) ==
  /\ running
  /\ StyleMutation(sel)
  /\ lastTick' = [NoTick EXCEPT !.op = "style", !.wasRunning = running]
  /\ UNCHANGED <<running, frameRequests, updateFunds>>

\* a display refresh: the frame callbacks in the order they were requested,
\* the loop's _anim first, then the stylesheet repaints
Frame ==
  LET T0 == [H |-> [ThisCell EXCEPT !.requests = 0], running |-> running,
             requests |-> 0, log |-> <<>>]
      T == anims_(T0, updateFunds, frameRequests)
  IN /\ CellBecomes(styleRepaints(T.H, styleRequests))
     /\ running' = T.running
     /\ frameRequests' = T.requests
     /\ lastTick' = [op |-> "frame", wasRunning |-> running, ticks |-> frameRequests,
                     funds |-> updateFunds, log |-> T.log,
                     camera |-> focusedCamera # 0, repaints |-> styleRequests]
     /\ styleNotices' = 0
     /\ lastCell' = [NoCellOp EXCEPT !.op = "refresh", !.notices = styleNotices,
                                     !.repaints = styleRequests,
                                     !.flushed = lastCell.flushed \/ styleRequests > 0]
     /\ UNCHANGED <<updateFunds, gone>>

(***************************************************************************)
(* Train.js: lerpNumber as JavaScript evaluates it.  A JavaScript number   *)
(* is a binary floating-point value and every operator rounds its exact    *)
(* result to the nearest representable value, ties to the even             *)
(* significand.  The format here is the same with a short significand:     *)
(* a value is an integer count of steps of 2^-FracBits and is              *)
(* representable when it is m * 2^e with |m| < 2^FloatBits and e >= 0.     *)
(***************************************************************************)
lerpVars == <<lerpIn, lerpOut>>

Abs(x) == IF x < 0 THEN -x ELSE x

\* 1.0 in steps
FloatOne == 2 ^ FracBits

\* the largest magnitude an argument takes, and the largest a result can take
FloatArgMax == 2 ^ (FloatBits + 2)

FloatMax == 2 ^ (FloatBits + 4)

Representable(n) ==
  \E e \in 0..(FloatBits + 4) :
    /\ Abs(n) % (2 ^ e) = 0
    /\ Abs(n) \div (2 ^ e) < 2 ^ FloatBits

Floats == {n \in -FloatMax..FloatMax : Representable(n)}

\* of two neighbouring values, the one with the even significand
EvenOf(r, q) == (r \div Abs(r - q)) % 2 = 0

\* the exact quotient N / D rounded to the nearest value, ties to even
Rnd(N, D) ==
  CHOOSE r \in Floats :
    \A q \in Floats \ {r} :
      \/ Abs(r * D - N) < Abs(q * D - N)
      \/ Abs(r * D - N) = Abs(q * D - N) /\ EvenOf(r, q)

flSub(x, y) == Rnd(x - y, 1)

flAdd(x, y) == Rnd(x + y, 1)

\* both factors are counts of steps, so the exact product is x * y / FloatOne
flMul(x, y) == Rnd(x * y, FloatOne)

lerpNumberFloat(a, b, t) == flAdd(a, flMul(flSub(b, a), t))

FloatArgs == {n \in Floats : Abs(n) <= FloatArgMax}

NoLerp == [fn |-> "none"]

LerpIdle ==
  /\ lerpIn = NoLerp
  /\ lerpOut = NoLerp

\* the arguments a caller can pass: two numbers and two progress values in [0, 1]
LerpNumberInit ==
  /\ lerpIn \in {[fn |-> "lerpNumber", a |-> a, b |-> b, t1 |-> t1, t2 |-> t2] :
                   a \in FloatArgs, b \in FloatArgs,
                   t1 \in 0..FloatOne, t2 \in 0..FloatOne}
  /\ lerpOut = NoLerp

\* the caller evaluates lerpNumber(a, b, t) at t = 0, t = 1, t1 and t2
LerpNumberCall ==
  /\ lerpIn.fn = "lerpNumber"
  /\ lerpOut = NoLerp
  /\ lerpOut' = [fn |-> "lerpNumber",
                 at0 |-> lerpNumberFloat(lerpIn.a, lerpIn.b, 0),
                 at1 |-> lerpNumberFloat(lerpIn.a, lerpIn.b, FloatOne),
                 atT1 |-> lerpNumberFloat(lerpIn.a, lerpIn.b, lerpIn.t1),
                 atT2 |-> lerpNumberFloat(lerpIn.a, lerpIn.b, lerpIn.t2)]
  /\ UNCHANGED lerpIn

(***************************************************************************)
(* Train.js: lerpArray called on its own.  Array elements are counted in   *)
(* halves, so that 5.5 is 11 and every value of the example is exact.      *)
(***************************************************************************)
ArrayNumbers == {0, 2, 8}

ExampleFrom == <<2, 4, 6, 8>>

ExampleTo == <<20, 40, 60>>

LerpArrayInit ==
  /\ lerpIn \in
       {[fn |-> "lerpArray", from |-> f, to |-> t, num |-> n, den |-> d] :
          f \in SeqsUpTo(ArrayNumbers, MaxArrayLen),
          t \in SeqsUpTo(ArrayNumbers, MaxArrayLen),
          n \in 0..MaxTDen, d \in 1..MaxTDen}
       \cup {[fn |-> "lerpArray", from |-> ExampleFrom, to |-> ExampleTo,
              num |-> 1, den |-> 2]}
  /\ lerpIn.num <= lerpIn.den
  /\ lerpOut = NoLerp

LerpArrayCall ==
  /\ lerpIn.fn = "lerpArray"
  /\ lerpOut = NoLerp
  /\ lerpOut' = [fn |-> "lerpArray",
                 out |-> lerpArray(lerpIn.from, lerpIn.to, lerpIn.num, lerpIn.den)]
  /\ UNCHANGED lerpIn

(***************************************************************************)
(* artist.js: the declarations of one rule applied to one node by          *)
(* _apply_rule.  The node has the plain properties x and y; no rule of     *)
(* this part declares --animation, so object.animation stays null.         *)
(***************************************************************************)
ruleVars == <<transition, values, tweens, thens, notices, requests>>

\* the rules the node may be painted with in one execution
MaxPaints == 3

\* a raw declaration value "@name"
AssetRef(name) == [k |-> "asset", a |-> <<name>>]

\* a raw declaration value "#ghost-x": no node has the id "ghost"
NodeRef == [k |-> "node", a |-> <<0>>]

\* a raw --transition value "<n>ms"
Time(n) == [k |-> "time", a |-> <<n>>]

\* the JavaScript value undefined
UndefinedValue == [k |-> "undefined", a |-> <<0>>]

\* the raw value "none"
NoneText == Other(-2)

\* the raw value 'red', a string that CSSValueTo3JSValue leaves a string
SomeText == Other(-3)

Decl(prop, raw) == [prop |-> prop, raw |-> raw]

\* the rules of the model, each the list of its declarations in order
Rules ==
  { <<Decl("transition", Time(3)), Decl("x", Num(4))>>,
    <<Decl("transition", Time(1)), Decl("x", Num(8))>>,
    <<Decl("transition", NoneText), Decl("x", Num(4))>>,
    <<Decl("transition", Time(3)), Decl("x", Arr(<<4>>))>>,
    <<Decl("x", SomeText)>>,
    <<Decl("x", AssetRef("ship")), Decl("y", Num(4))>>,
    <<Decl("x", NodeRef), Decl("y", Num(8))>> }

\* parseTransitionCSS(value): the duration, or 0 for the null it returns
parseTransitionCSS(value) ==
  IF value.k = "time" /\ value.a[1] > 0 THEN value.a[1] ELSE 0

\* the state the functions of a task thread through their calls
Painted(c, tr, vs, tw, th, nt, rq) ==
  [c |-> c, transition |-> tr, values |-> vs, tweens |-> tw, thens |-> th,
   notices |-> nt, requests |-> rq]

\* `const parsed = CSSValueTo3JSValue(value, object)`, after the cache has
\* seen the lookup: "@name" is getAsset(name), "#ghost-x" throws inside the
\* try and yields undefined, anything else is the parsed literal
parsedValue(c, raw) ==
  IF raw.k = "asset"
    THEN LET e == getAssetResult(c, assetRules, raw.a[1], FALSE) IN
         IF e.kind = "pending" THEN Promised(e.id)
         ELSE IF e.kind = "value" THEN Other(e.id)
         ELSE NullValue
  ELSE IF raw.k = "node" THEN UndefinedValue
  ELSE raw

parsedCache(c, raw) ==
  IF raw.k = "asset" THEN getAssetCache(c, assetRules, raw.a[1], FALSE) ELSE c

\* exchange_rule(parent, key, value) on a plain field: parent[key] = value
exchange_rule(P, key, value) == [P EXCEPT !.values[key] = value]

\* the onComplete of assignValue: dispatchEvent({type: 'TransitionFinished'})
transitionFinished(P, id, key, el, dur) ==
  [P EXCEPT !.notices = Append(@, [id |-> id, key |-> key, value |-> P.values[key],
                                   due |-> el >= dur])]

isAnimatableAlways(P, current, resolved) == P.transition > 0

\* assignValue: transition && duration > 0 && both values a number or an array
isAnimatableValue(P, current, resolved) ==
  /\ P.transition > 0
  /\ isAnimatable(current)
  /\ isAnimatable(resolved)

\* animateLerp as assignValue calls it for request id
startTransition(P, id, key, f, t, dur) ==
  IF finishInstant(f, t, [finite |-> TRUE, ms |-> dur])
    THEN transitionFinished(exchange_rule(P, key, t), id, key, 0, dur)
    ELSE [P EXCEPT !.tweens = Append(@, [id |-> id, key |-> key, f |-> f, t |-> t,
                                         el |-> 0, dur |-> dur])]

\* assignValue(resolvedValue) of request id
assignValue(P, id, key, resolvedValue) ==
  IF resolvedValue = UndefinedValue
    THEN [P EXCEPT !.requests[id].value = resolvedValue,
                   !.requests[id].after = P.values[key]]
  ELSE
    LET currentValue == P.values[key]
        animated == isAnimatableValue(P, currentValue, resolvedValue)
        Q == IF animated
               THEN startTransition(P, id, key, currentValue, resolvedValue, P.transition)
               ELSE exchange_rule(P, key, resolvedValue)
    IN [Q EXCEPT !.requests[id].value = resolvedValue,
                 !.requests[id].before = currentValue,
                 !.requests[id].after = Q.values[key],
                 !.requests[id].duration = P.transition,
                 !.requests[id].over =
                   {P.tweens[n].id : n \in {m \in 1..Len(P.tweens) : P.tweens[m].key = key}},
                 !.requests[id].animated = animated]

\* one pass of the loop over rule.style for a property other than
\* --transition: resolve, then assign now or when the promise settles
declare(P, paint, d) ==
  LET parsed == parsedValue(P.c, d.raw)
      id == Len(P.requests) + 1
      P1 == [P EXCEPT !.c = parsedCache(P.c, d.raw),
                      !.requests = Append(@, [paint |-> paint, key |-> d.prop, raw |-> d.raw,
                                              value |-> parsed,
                                              before |-> P.values[d.prop],
                                              after |-> P.values[d.prop],
                                              duration |-> 0, over |-> {},
                                              animated |-> FALSE,
                                              deferred |-> parsed.k = "promise"])]
  IN IF parsed.k = "promise"
       THEN [P1 EXCEPT !.thens = Append(@, [id |-> id, key |-> d.prop, promise |-> parsed.a[1]])]
       ELSE assignValue(P1, id, d.prop, parsed)

\* _apply_rule: `for (let i = 0; i < rule.style.length; i++)`
RECURSIVE applyDeclarations(_, _, _, _)
applyDeclarations(P, paint, rule, i) ==
  IF i > Len(rule) THEN P
  ELSE LET d == rule[i] IN
       IF d.prop = "transition"
         THEN applyDeclarations([P EXCEPT !.transition = parseTransitionCSS(d.raw)],
                                paint, rule, i + 1)
         ELSE applyDeclarations(declare(P, paint, d), paint, rule, i + 1)

\* the scheduled steps of animateLerp at a display refresh, in the order
\* they were registered
RECURSIVE tweenSteps(_, _, _)
tweenSteps(P, todo, d) ==
  IF todo = <<>> THEN P
  ELSE
    LET a == Head(todo)
        el == a.el + d
        dur == [finite |-> TRUE, ms |-> a.dur]
        P1 == exchange_rule(P, a.key, stepValue(a.f, a.t, el, dur))
    IN IF stepAgain(el, dur)
         THEN tweenSteps([P1 EXCEPT !.tweens = Append(@, [a EXCEPT !.el = el])], Tail(todo), d)
         ELSE tweenSteps(transitionFinished(P1, a.id, a.key, el, a.dur), Tail(todo), d)

\* the assignValue continuations of the promise of load id, in the order
\* they were attached
RECURSIVE settleThens(_, _, _, _)
settleThens(P, todo, id, result) ==
  IF todo = <<>> THEN P
  ELSE LET t == Head(todo) IN
       IF t.promise = id
         THEN settleThens(assignValue(P, t.id, t.key, result), Tail(todo), id, result)
         ELSE settleThens([P EXCEPT !.thens = Append(@, t)], Tail(todo), id, result)

RuleIdle ==
  /\ transition = 0
  /\ values = [k \in Keys |-> Num(0)]
  /\ tweens = <<>>
  /\ thens = <<>>
  /\ notices = <<>>
  /\ requests = <<>>

\* a node no rule has been applied to
RuleInit ==
  /\ transition = 0
  /\ values \in {[x |-> v, y |-> Num(0)] : v \in {Num(0), Arr(<<0, 0>>)}}
  /\ tweens = <<>>
  /\ thens = <<>>
  /\ notices = <<>>
  /\ requests = <<>>

ThePainted ==
  Painted(Cache(assetMap, inFlight, promise, issuedLoads, {}), transition, values,
          tweens, thens, notices, requests)

\* the task ends in the state P
RuleBecomes(P) ==
  /\ assetMap' = P.c.map
  /\ inFlight' = P.c.flight
  /\ promise' = P.c.promise
  /\ issuedLoads' = P.c.issued
  /\ transition' = P.transition
  /\ values' = P.values
  /\ tweens' = P.tweens
  /\ thens' = P.thens
  /\ notices' = P.notices
  /\ requests' = P.requests
  /\ UNCHANGED <<assetRules, failedLoad, lastAsset>>

Paints(rq) == {rq[i].paint : i \in 1..Len(rq)}

\* a repaint applies a rule to the node: _apply_rule(rule, object)
ApplyRule(rule) ==
  /\ Cardinality(Paints(requests)) < MaxPaints
  /\ LET P == applyDeclarations(ThePainted, Cardinality(Paints(requests)) + 1, rule, 1)
     IN /\ P.c.issued <= MaxLoads
        /\ RuleBecomes(P)

\* a display refresh d milliseconds after the last one
TweenFrame(d) ==
  /\ tweens # <<>>
  /\ RuleBecomes(tweenSteps([ThePainted EXCEPT !.tweens = <<>>], tweens, d))

\* a load fulfils: the cache stores the asset, then the continuations run
RuleLoadFulfilled(l) ==
  /\ l \in inFlight
  /\ LET P == ThePainted
         c == [P.c EXCEPT !.map[l.name] = Value(l.id), !.flight = @ \ {l},
                          !.promise[l.id] = "value"]
     IN RuleBecomes(settleThens([P EXCEPT !.c = c, !.thens = <<>>], thens, l.id, Other(l.id)))

\* a load rejects: the cache entry is deleted and the promise settles to null
RuleLoadRejected(l) ==
  /\ l \in inFlight
  /\ LET P == ThePainted
         c == [P.c EXCEPT !.map = evict(@, l.name), !.flight = @ \ {l},
                          !.promise[l.id] = "null"]
     IN RuleBecomes(settleThens([P EXCEPT !.c = c, !.thens = <<>>], thens, l.id, NullValue))

(***************************************************************************)
(* main.js: the JTHREE facade that creates one Cell per <cell> element of  *)
(* the document.  The <cell> elements are numbered in document order.      *)
(***************************************************************************)
initVars == <<cells, noContext, loadedCells, styleTag, overlays, lastInit>>

\* the <cell> elements a document can have
MaxRoots == 3

\* the canvases the model lets createWebGLOverlay append to one element
MaxOverlays == 2

Roots == 1..MaxRoots

\* the state the functions of a call thread through: `thrown` is set while
\* an error is propagating
Facade(lc, tag, ov) ==
  [loaded |-> lc, styleTag |-> tag, overlays |-> ov, thrown |-> FALSE, created |-> {}]

getContextAlways(noGL, cellEl) == TRUE

\* canvas.getContext('webgl2') || ... : whether a context is obtained
getContext(noGL, cellEl) == cellEl \notin noGL

\* createWebGLOverlay(hostEl): appends the canvas, then `if (!gl) throw`
createWebGLOverlay(F, noGL, hostEl) ==
  [F EXCEPT !.overlays[hostEl] = @ + 1, !.thrown = ~getContext(noGL, hostEl)]

\* JTHREE.create_THREEJSRENDERER(cellEl)
create_THREEJSRENDERER(F, noGL, cellEl) ==
  IF cellEl \in F.loaded THEN F
  ELSE LET F1 == createWebGLOverlay(F, noGL, cellEl) IN
       IF F1.thrown THEN F1
       ELSE [F1 EXCEPT !.loaded = @ \cup {cellEl}, !.created = @ \cup {cellEl}]

\* document.querySelectorAll('cell').forEach(...), from the element el on
RECURSIVE forEachCell(_, _, _, _)
forEachCell(F, doc, noGL, el) ==
  IF el > MaxRoots \/ F.thrown THEN F
  ELSE IF el \notin doc \/ el \in F.loaded THEN forEachCell(F, doc, noGL, el + 1)
  ELSE forEachCell(create_THREEJSRENDERER(F, noGL, el), doc, noGL, el + 1)

\* JTHREE.init_convert()
init_convert(F, doc, noGL) == forEachCell([F EXCEPT !.styleTag = TRUE], doc, noGL, 1)

NoInit == [op |-> "none", thrown |-> FALSE, created |-> {}, before |-> {}]

InitIdle ==
  /\ cells = {}
  /\ noContext = {}
  /\ loadedCells = {}
  /\ styleTag = FALSE
  /\ overlays = [r \in Roots |-> 0]
  /\ lastInit = NoInit

\* a document before the module is imported; the elements of noContext are
\* those whose canvas obtains no graphics context
InitInit ==
  /\ cells \in SUBSET Roots
  /\ noContext \in SUBSET Roots
  /\ loadedCells = {}
  /\ styleTag = FALSE
  /\ overlays = [r \in Roots |-> 0]
  /\ lastInit = NoInit

FacadeBecomes(F, op) ==
  /\ \A r \in Roots : F.overlays[r] <= MaxOverlays
  /\ loadedCells' = F.loaded
  /\ styleTag' = F.styleTag
  /\ overlays' = F.overlays
  /\ lastInit' = [op |-> op, thrown |-> F.thrown, created |-> F.created,
                  before |-> loadedCells]

\* the module is imported, or a script calls JTHREE.init_convert()
InitConvert ==
  /\ FacadeBecomes(init_convert(Facade(loadedCells, styleTag, overlays), cells, noContext),
                   "init_convert")
  /\ UNCHANGED <<cells, noContext>>

\* a script calls JTHREE.create_THREEJSRENDERER(cellEl)
CreateRenderer(cellEl) ==
  /\ cellEl \in cells
  /\ FacadeBecomes(create_THREEJSRENDERER(Facade(loadedCells, styleTag, overlays),
                                          noContext, cellEl),
                   "create")
  /\ UNCHANGED <<cells, noContext>>

\* a script inserts another <cell> element into the document
InsertCell(cellEl) ==
  /\ cellEl \notin cells
  /\ cells' = cells \cup {cellEl}
  /\ lastInit' = [NoInit EXCEPT !.op = "insert", !.before = loadedCells]
  /\ UNCHANGED <<noContext, loadedCells, styleTag, overlays>>

(***************************************************************************)
(* artist.js: the --animation declaration of a rule.  A declaration value  *)
(* is the sequence of its whitespace-separated tokens; a token is a word   *)
(* without digits or a number with its unit suffix.                        *)
(***************************************************************************)
declVars == <<declaration, parsedAnimation>>

\* the largest number a declaration of the model gives as duration or count
MaxCount == 3

Word(text) == [text |-> text, n |-> 0, unit |-> ""]

Number(n, unit) == [text |-> "", n |-> n, unit |-> unit]

\* String.prototype.toLowerCase, over the words of the model
toLowerCase(text) == IF text = "Spin" THEN "spin" ELSE text

\* /\d/.test(token)
hasDigit(token) == token.text = ""

\* `Number.isFinite(maybeCount) && maybeCount > 0` for maybeCount = parseInt(token, 10)
isCount(token) == hasDigit(token) /\ token.n > 0

\* parts.findIndex(t => t === 'infinite' || t === 'infinity'), 0 for -1
findInfinite(parts) ==
  LET found == {i \in 1..Len(parts) : parts[i].text \in {"infinite", "infinity"}}
  IN IF found = {} THEN 0 ELSE CHOOSE i \in found : \A j \in found : i <= j

\* parts.splice(index, 1)
splice(parts, index) == SubSeq(parts, 1, index - 1) \o SubSeq(parts, index + 1, Len(parts))

\* null, as object.animation
NoConfig == [name |-> "", duration |-> 0, count |-> 0, timing |-> <<>>]

\* parseAnimationCSS(value); the timing string is kept as the tokens joined
parseAnimationCSS(value) ==
  LET parts == [i \in 1..Len(value) |-> [value[i] EXCEPT !.text = toLowerCase(@)]] IN
  IF parts = <<>> \/ parts = <<Word("none")>> THEN NoConfig
  ELSE
    LET nameToken == parts[1].text
        rest == Tail(parts)
        timed == rest # <<>> /\ hasDigit(rest[1])
        timeMs == IF ~timed THEN 1000
                  ELSE IF rest[1].unit = "ms" THEN rest[1].n
                  ELSE IF rest[1].unit = "s" THEN rest[1].n * 1000
                  ELSE rest[1].n
        untimed == IF timed THEN Tail(rest) ELSE rest
        infIndex == findInfinite(untimed)
        counted == infIndex = 0 /\ untimed # <<>> /\ isCount(untimed[Len(untimed)])
        iterationCount == IF infIndex # 0 THEN Infinite
                          ELSE IF counted THEN untimed[Len(untimed)].n
                          ELSE 1
        left == IF infIndex # 0 THEN splice(untimed, infIndex)
                ELSE IF counted THEN SubSeq(untimed, 1, Len(untimed) - 1)
                ELSE untimed
    IN [name |-> nameToken, duration |-> timeMs, count |-> iterationCount,
        timing |-> IF left # <<>> THEN left ELSE <<Word("linear")>>]

\* the declarations of the grammar
\*   <name> [<duration>[ms|s]] [infinite|<count>] [<easing...>]
\* by their parts: each optional part is a sequence of no or more tokens
Declarations ==
  [name : {"spin", "Spin"},
   duration : {<<>>} \cup {<<Number(n, unit)>> : n \in 2..MaxCount, unit \in {"", "ms", "s"}},
   count : {<<>>, <<Word("infinite")>>} \cup {<<Number(n, "")>> : n \in 2..MaxCount},
   easing : {<<>>, <<Word("ease")>>, <<Word("ease"), Word("in")>>}]

\* the text of a declaration
Written(s) == <<Word(s.name)>> \o s.duration \o s.count \o s.easing

DeclIdle == declaration = <<>> /\ parsedAnimation = NoConfig

\* `object.animation = parseAnimationCSS(value)` for the --animation property
SetAnimation(value) ==
  /\ declaration' = value
  /\ parsedAnimation' = parseAnimationCSS(value)

vars == <<animVars, assetVars, keyVars, cellVars, lerpVars, loopVars, ruleVars, initVars, declVars>>

(***************************************************************************)
(* SpecAnim: one call of animateLerp and the display refreshes after it.   *)
(***************************************************************************)
AnimCall == animateLerp /\ UNCHANGED <<assetVars, keyVars, cellVars, lerpVars, loopVars, ruleVars, initVars, declVars>>

AnimRefresh(d) == AnimFrame(d) /\ UNCHANGED <<assetVars, keyVars, cellVars, lerpVars, loopVars, ruleVars, initVars, declVars>>

AnimIdleRefresh == AnimIdleFrame /\ UNCHANGED <<assetVars, keyVars, cellVars, lerpVars, loopVars, ruleVars, initVars, declVars>>

SpecAnimInit == AnimInit /\ AssetIdle /\ KeyIdle /\ CellIdle /\ LerpIdle /\ LoopInit /\ RuleIdle /\ InitIdle /\ DeclIdle

SpecAnimNext ==
  \/ AnimCall
  \/ \E d \in 1..MaxDelta : AnimRefresh(d)
  \/ AnimIdleRefresh

SpecAnim == SpecAnimInit /\ [][SpecAnimNext]_vars

(***************************************************************************)
(* SpecAsset: lookups of the asset cache and the settling of its loads.    *)
(***************************************************************************)
AssetLookup(name, path) == getAsset(name, path) /\ UNCHANGED <<animVars, keyVars, cellVars, lerpVars, loopVars, ruleVars, initVars, declVars>>

AssetFulfilled(l) == LoadFulfilled(l) /\ UNCHANGED <<animVars, keyVars, cellVars, lerpVars, loopVars, ruleVars, initVars, declVars>>

AssetRejected(l) == LoadRejected(l) /\ UNCHANGED <<animVars, keyVars, cellVars, lerpVars, loopVars, ruleVars, initVars, declVars>>

SpecAssetInit == AssetInit /\ AnimIdle /\ KeyIdle /\ CellIdle /\ LerpIdle /\ LoopInit /\ RuleIdle /\ InitIdle /\ DeclIdle

SpecAssetNext ==
  \/ \E name \in {"cube"} \cup Loadable, path \in BOOLEAN : AssetLookup(name, path)
  \/ \E l \in inFlight : AssetFulfilled(l)
  \/ \E l \in inFlight : AssetRejected(l)

SpecAsset == SpecAssetInit /\ [][SpecAssetNext]_vars

(***************************************************************************)
(* SpecKey: repaints of one node, display refreshes and the settling of    *)
(* the asset its keyframes refer to.                                       *)
(***************************************************************************)
KeyRepaint(keep, cfg) == Repaint(keep, cfg) /\ UNCHANGED <<animVars, cellVars, lerpVars, loopVars, ruleVars, initVars, declVars>>

KeyFrameRefresh(d) == KeyRefresh(d) /\ UNCHANGED <<animVars, cellVars, lerpVars, loopVars, ruleVars, initVars, declVars>>

KeyAssetFulfilled(l) == KeyLoadFulfilled(l) /\ UNCHANGED <<animVars, cellVars, lerpVars, loopVars, ruleVars, initVars, declVars>>

KeyAssetRejected(l) == KeyLoadRejected(l) /\ UNCHANGED <<animVars, cellVars, lerpVars, loopVars, ruleVars, initVars, declVars>>

SpecKeyInit ==
  /\ KeyInit
  /\ CellIdle
  /\ AnimIdle
  /\ LerpIdle /\ LoopInit /\ RuleIdle /\ InitIdle /\ DeclIdle
  /\ assetMap = [n \in AssetNames |-> Absent]
  /\ assetRules = {"tex"}
  /\ inFlight = {}
  /\ promise = [i \in 1..MaxLoads |-> "none"]
  /\ issuedLoads = 0
  /\ failedLoad = [n \in AssetNames |-> 0]
  /\ lastAsset = NoAssetOp

SpecKeyNext ==
  \/ \E cfg \in AnimationConfigs \cup {NoAnimation} : KeyRepaint(FALSE, cfg)
  \/ KeyRepaint(TRUE, NoAnimation)
  \/ \E d \in 1..MaxDelta : KeyFrameRefresh(d)
  \/ \E l \in inFlight : KeyAssetFulfilled(l)
  \/ \E l \in inFlight : KeyAssetRejected(l)

SpecKey == SpecKeyInit /\ [][SpecKeyNext]_vars

(***************************************************************************)
(* SpecTwice: the sequence {from: x=0; to: x=10} run with the declaration  *)
(* `spin 1000ms linear 2` on a node whose x is 0.                          *)
(***************************************************************************)
TwiceFrames == <<KeyFrame(From, Num(0), Undeclared), KeyFrame(To, Num(10), Undeclared)>>

TwiceConfig == [name |-> "spin", duration |-> 1000, count |-> 2]

SpecTwiceInit ==
  /\ KeyInitWith({TwiceFrames})
  /\ AnimIdle
  /\ AssetIdle
  /\ CellIdle
  /\ LerpIdle /\ LoopInit /\ RuleIdle /\ InitIdle /\ DeclIdle

SpecTwiceNext ==
  \/ KeyRepaint(FALSE, TwiceConfig)
  \/ \E d \in 1..MaxDelta : KeyFrameRefresh(d)

SpecTwice == SpecTwiceInit /\ [][SpecTwiceNext]_vars

(***************************************************************************)
(* SpecDom: scripts add and remove source elements of a cell; the          *)
(* _styleObserver callback handles the records.                            *)
(***************************************************************************)
DomScriptRemove(e) == DomRemove(e) /\ UNCHANGED <<animVars, assetVars, keyVars, lerpVars, loopVars, ruleVars, initVars, declVars>>

DomScriptAdd(e, p) == DomAdd(e, p) /\ UNCHANGED <<animVars, assetVars, keyVars, lerpVars, loopVars, ruleVars, initVars, declVars>>

DomObserved == DomFlush /\ UNCHANGED <<animVars, assetVars, keyVars, lerpVars, loopVars, ruleVars, initVars, declVars>>

SpecDomInit == CellInit(Documents, {Selectors}, {OtherCamera}) /\ AnimIdle /\ AssetIdle /\ KeyIdle /\ LerpIdle /\ LoopInit /\ RuleIdle /\ InitIdle /\ DeclIdle

SpecDomNext ==
  \/ \E e \in Elems : DomScriptRemove(e)
  \/ \E e \in Elems, p \in {Root} \cup Elems : DomScriptAdd(e, p)
  \/ DomObserved

SpecDom == SpecDomInit /\ [][SpecDomNext]_vars

(***************************************************************************)
(* SpecPick: pointer events on a cell whose document does not change.      *)
(***************************************************************************)
ButtonTypes == {"click", "dblclick", "mousedown", "mouseup", "contextmenu"}

PickMove(hit) == PointerMove(hit) /\ UNCHANGED <<animVars, assetVars, keyVars, lerpVars, loopVars, ruleVars, initVars, declVars>>

PickButton(type) == PointerButton(type) /\ UNCHANGED <<animVars, assetVars, keyVars, lerpVars, loopVars, ruleVars, initVars, declVars>>

SpecPickInit ==
  CellInit(Documents, StyleSheets, {0, OtherCamera}) /\ AnimIdle /\ AssetIdle /\ KeyIdle /\ LerpIdle /\ LoopInit /\ RuleIdle /\ InitIdle /\ DeclIdle

SpecPickNext ==
  \/ \E hit \in 0..MaxNodes : PickMove(hit)
  \/ \E type \in ButtonTypes : PickButton(type)

SpecPick == SpecPickInit /\ [][SpecPickNext]_vars

(***************************************************************************)
(* SpecStyle: stylesheet edits and display refreshes of a cell.            *)
(***************************************************************************)
StyleEdited(sel) == StyleMutation(sel) /\ UNCHANGED <<animVars, assetVars, keyVars, lerpVars, loopVars, ruleVars, initVars, declVars>>

StyleRefresh == Refresh /\ UNCHANGED <<animVars, assetVars, keyVars, lerpVars, loopVars, ruleVars, initVars, declVars>>

SpecStyleInit ==
  CellInit(Documents, StyleSheets, {OtherCamera}) /\ AnimIdle /\ AssetIdle /\ KeyIdle /\ LerpIdle /\ LoopInit /\ RuleIdle /\ InitIdle /\ DeclIdle

SpecStyleNext ==
  \/ \E sel \in Selectors : StyleEdited(sel)
  \/ StyleRefresh

SpecStyle == SpecStyleInit /\ [][SpecStyleNext]_vars

(***************************************************************************)
(* Claims about the indices of a cell, checked under SpecDom.              *)
(***************************************************************************)
Indexed ==
  Range(namedConvicts) \cup Range(classyConvicts) \cup Range(constantConvicts)
    \cup {allConvictsByDom[e] : e \in Elems}

\* C1: once the mutation handler has processed the removal of a source
\* element, neither its node nor the node of any element that was below it
\* at removal time is left in the id index, the class index, the
\* always-repaint set or the element-to-node map.
C1_RemovalLeavesNoEntry == gone \cap Indexed = {}

(***************************************************************************)
(* Claims about infinite keyframe runs, checked under SpecKey.             *)
(***************************************************************************)
InfiniteRuns(rs) == {r \in ActiveRuns(rs) : rs[r].cfg.count = Infinite}

\* a step taken while an infinite run is in progress leaves it in progress
\* with the marker set, completes nothing and starts no other run
InfiniteRunGoesOn ==
  \A r \in InfiniteRuns(runs) :
    /\ r \in InfiniteRuns(runs')
    /\ animationRunning /\ animationRunning'
    /\ ActiveRuns(runs') = ActiveRuns(runs)
    /\ ~lastKey'.finished
    /\ ~lastKey'.started

\* C29: a keyframe run started with an infinite iteration count repeats the
\* whole sequence forever and never signals completion; the node's
\* run-in-progress marker therefore stays set for the rest of the execution
\* and no later repaint of that node starts another run.
C29_InfiniteRunNeverCompletes == [][InfiniteRunGoesOn]_vars

\* an infinite run has gone through its sequence twice and is in progress
C29_Witness ==
  /\ InfiniteRuns(runs) # {}
  /\ animationRunning
  /\ lastKey.op = "refresh"
  /\ lastKey.iterations >= 2

\* a repaint with another animation arrived during an infinite run
C29_RepaintWitness ==
  /\ InfiniteRuns(runs) # {}
  /\ lastKey.op = "repaint"
  /\ lastKey.hadRun
  /\ \A r \in InfiniteRuns(runs) : runs[r].cfg # animation

\* C35: while an infinite keyframe run is active on some node, the host's
\* render loop keeps ticking: every iteration of the sequence suspends at
\* least once until a display refresh before the next iteration begins,
\* including when the sequence offers nothing to animate (fewer than two
\* keyframes, no property common to a pair, zero-length segments, or
\* non-numeric values).
C35_InfiniteRunYields == InfiniteRuns(runs) # {} => ~hung

\* what holds: an infinite run whose every pair animates a number never
\* freezes the page
C35_NumericRunYields ==
  (keyframes = <<KeyFrame(From, Num(0), Num(0)), KeyFrame(Pct(50), Num(4), Num(4)),
                 KeyFrame(To, Num(0), Num(0))>>)
    => ~hung

(***************************************************************************)
(* Claims about the pointer handlers, checked under SpecPick.              *)
(***************************************************************************)
EventsAre(types, targets) ==
  /\ Len(events) = Len(types)
  /\ \A i \in 1..Len(events) :
       events[i].type = types[i] /\ events[i].target = targets[i]

\* the last pointer-move hit a node while lastHit was another node
MovedOnto == lastCell.op = "move" /\ lastCell.hit # 0 /\ lastCell.prev \notin {0, lastCell.hit}

\* C2: a pointer-move whose topmost hit is B while lastHit is another node A
\* dispatches exactly one leave event to A, then exactly one enter event to
\* B, then the hover event to B, and leaves lastHit = B.
C2_LeaveEnterHover ==
  (focusedCamera # 0 /\ MovedOnto) =>
    /\ EventsAre(<<"cellmouseleave", "cellmouseenter", "cellhover">>,
                 <<lastCell.prev, lastCell.hit, lastCell.hit>>)
    /\ last_cast_caught = lastCell.hit

\* the pointer has moved from one pickable node onto another
C2_Witness ==
  /\ MovedOnto
  /\ lastCell.prev \in layers
  /\ lastCell.hit \in layers
  /\ Len(events) = 3
  /\ last_cast_caught = lastCell.hit

\* the synthetic event each handler offers to the element of lastHit
EventOf(type) ==
  IF type = "click" THEN "cellclick"
  ELSE IF type = "dblclick" THEN "celldblclick"
  ELSE IF type = "mousedown" THEN "celldown"
  ELSE IF type = "mouseup" THEN "cellup"
  ELSE "cellcontextmenu"

\* the flags of lastHit after the handler of `type`, given those before
FlagsAfter(type, flags) ==
  IF type \in {"click", "dblclick"} THEN flags \cup {":focus"}
  ELSE IF type = "mousedown" THEN flags \cup {":active"}
  ELSE IF type = "mouseup" THEN flags \ {":active"}
  ELSE flags

\* the step is one of the button handlers; it acts on lastHit only
ButtonActsOnLastHit ==
  lastCell'.op \in ButtonTypes =>
    LET hit == last_cast_caught IN
    /\ last_cast_caught' = hit
    /\ \A n \in 1..MaxNodes : n # hit => extraParams'[n] = extraParams[n]
    /\ IF hit = 0
         THEN extraParams' = extraParams /\ events' = <<>> /\ paints' = <<>>
         ELSE /\ Range(extraParams'[hit]) = FlagsAfter(lastCell'.op, Range(extraParams[hit]))
              /\ Len(events') = 1
              /\ events'[1].type = EventOf(lastCell'.op)
              /\ events'[1].target = hit

\* C23: click, mouse-down, mouse-up and double-click never re-cast the ray:
\* they act on lastHit as the last pointer-move left it.  Click and
\* double-click add the focus flag to lastHit, mouse-down adds the active
\* flag, mouse-up removes it, and the flags of every other node are
\* unchanged; when lastHit is null these handlers and context-menu dispatch
\* no event, change no flag and trigger no repaint.
C23_ButtonsActOnLastHit == [][ButtonActsOnLastHit]_vars

\* a double-click on a hovered node has focused it
C23_Witness ==
  /\ lastCell.op = "dblclick"
  /\ last_cast_caught # 0
  /\ ":focus" \in Range(extraParams[last_cast_caught])
  /\ EventsAre(<<"celldblclick">>, <<last_cast_caught>>)

\* a context-menu with no node under the pointer, while some node is focused
C23_NullWitness ==
  /\ lastCell.op = "contextmenu"
  /\ last_cast_caught = 0
  /\ \E n \in 1..MaxNodes : ":focus" \in Range(extraParams[n])
  /\ events = <<>> /\ paints = <<>>

(***************************************************************************)
(* Claims about the stylesheet repaint, checked under SpecStyle.           *)
(***************************************************************************)
\* C5: at any moment at most one stylesheet repaint is requested for the
\* next display refresh: the notifications that arrive between two
\* refreshes, however many, produce exactly one whole-subtree repaint at
\* the next refresh, and a notification after that refresh requests a new one.
C5_OneRepaintPerRefresh ==
  /\ styleRequests <= 1
  /\ pendingStyleRepaint <=> styleRequests = 1
  /\ styleNotices > 0 <=> styleRequests = 1
  /\ lastCell.op = "refresh" =>
       lastCell.repaints = (IF lastCell.notices > 0 THEN 1 ELSE 0)

\* several notifications since the previous stylesheet repaint were answered
\* by one repaint
C5_Witness ==
  /\ lastCell.op = "refresh"
  /\ lastCell.notices >= 2
  /\ lastCell.repaints = 1
  /\ lastCell.flushed
  /\ ~pendingStyleRepaint
  /\ paints # <<>>

(***************************************************************************)
(* Claims about the asset cache, checked under SpecAsset.                  *)
(***************************************************************************)
LoadsOf(n) == {l \in inFlight : l.name = n}

\* C3: at most one load per name is in flight, and a lookup made while the
\* name's load is pending issues no load of that name and returns the pending
\* value already in the cache.
C3_OneLoadPerName ==
  /\ \A n \in AssetNames : Cardinality(LoadsOf(n)) <= 1
  /\ (lastAsset.op = "getAsset" /\ lastAsset.before.kind = "pending") =>
       /\ lastAsset.result = lastAsset.before
       /\ assetMap[lastAsset.name] = lastAsset.before
       /\ lastAsset.name \notin lastAsset.loaded

C3_Witness ==
  /\ lastAsset.op = "getAsset"
  /\ lastAsset.before.kind = "pending"
  /\ lastAsset.path
  /\ lastAsset.result.kind = "pending"

\* a rejected load leaves no entry, its promise settles to null, no entry
\* stays pending without a live load, and the built-ins stay in the cache
EvictedOnFailure ==
  /\ lastAsset.op = "rejected" =>
       /\ assetMap[lastAsset.name] = Absent
       /\ promise[lastAsset.failed] = "null"
  /\ \A n \in AssetNames : \A i \in 1..MaxLoads :
       assetMap[n] = Pending(i) => [id |-> i, name |-> n] \in inFlight
  /\ \A i \in 1..MaxLoads :
       promise[i] = "pending" <=> \E l \in inFlight : l.id = i
  /\ \A b \in Builtins : assetMap[b] \in {Absent, Value(0)}
  /\ lastAsset.op # "none" => \A b \in Builtins : assetMap[b] = Value(0)

\* C4 as stated: after a failed load the entry is evicted, the promise
\* settles, built-ins stay, and the next lookup of that name issues a fresh load.
C4_NextLookupLoads ==
  /\ EvictedOnFailure
  /\ (lastAsset.op = "getAsset" /\ lastAsset.failed # 0) =>
       lastAsset.name \in lastAsset.loaded

\* C4 amended: after a failed load the entry is evicted, the promise settles
\* and built-ins stay; the next lookup of the name returns the pending value
\* or the result of a load issued after the failure when the lookup passes a
\* path or a stylesheet rule declares the name (that load is issued by this
\* lookup or by an earlier getAsset call for any name), and otherwise
\* returns null and issues no load of the name.
C4_EvictedAndRetried ==
  /\ EvictedOnFailure
  /\ (lastAsset.op = "getAsset" /\ lastAsset.failed # 0) =>
       IF lastAsset.path \/ lastAsset.name \in assetRules
         THEN /\ lastAsset.result.kind \in {"pending", "value"}
              /\ lastAsset.result.id > lastAsset.failed
              /\ lastAsset.name \in lastAsset.loaded <=> lastAsset.before = Absent
         ELSE /\ lastAsset.result = Null
              /\ lastAsset.name \notin lastAsset.loaded

C4_Witness ==
  /\ lastAsset.op = "getAsset"
  /\ lastAsset.failed # 0
  /\ lastAsset.name \in lastAsset.loaded
  /\ lastAsset.result = Pending(issuedLoads)

(***************************************************************************)
(* Claims about keyframe runs, checked under SpecKey.                      *)
(***************************************************************************)
\* C6: at most one keyframe animation run exists for the node at any time:
\* a repaint that finds a run in progress starts no additional run, under
\* any interleaving of repaints, display refreshes and asset settlings.
C6_OneRunPerNode ==
  /\ Cardinality(ActiveRuns(runs)) <= 1
  /\ (lastKey.op = "repaint" /\ lastKey.hadRun) => ~lastKey.started

\* a repaint with a startable animation config found a run animating
C6_Witness ==
  /\ lastKey.op = "repaint"
  /\ lastKey.hadRun
  /\ animation \in AnimationConfigs
  /\ animation.name = "spin"
  /\ animation.duration > 0
  /\ \E n \in 1..Len(anims) : anims[n].el > 0

\* the properties the pair a run is at animates
PairKeys(run) ==
  LET rules == sortRules(getAnimationMap(run.cfg.name), run.cfg.duration) IN
  {k \in Keys : /\ rules[run.pair].style[k] # Undeclared
                /\ rules[run.pair + 1].style[k] # Undeclared}

\* C7: within one run the property animations of pair N+1 are neither
\* started nor updated while a property animation of pair N is unfinished,
\* and the property animations of one pair are in progress together.
C7_PairsInSequence ==
  /\ \A n \in 1..Len(keyUpdates) : keyUpdates[n].oldest = keyUpdates[n].pair
  /\ \A n \in 1..Len(anims) :
       /\ runs[anims[n].run].active
       /\ anims[n].pair = runs[anims[n].run].pair
  /\ \A r \in ActiveRuns(runs) :
       ~hung => \A k \in PairKeys(runs[r]) : runs[r].keys[k] \in {"await", "anim", "done"}

\* the second pair animates two properties at once, after the first pair ended
C7_Witness ==
  /\ lastKey.op = "refresh"
  /\ Len(anims) = 2
  /\ anims[1].run = anims[2].run
  /\ anims[1].pair = 2
  /\ anims[2].pair = 2
  /\ anims[1].key # anims[2].key
  /\ anims[1].el > 0
  /\ anims[2].el > 0

\* one property of a pair animates while the other still awaits its asset
C7_StaggeredWitness ==
  \E r \in ActiveRuns(runs) :
    /\ runs[r].keys["y"] = "await"
    /\ \E n \in 1..Len(anims) : anims[n].run = r /\ anims[n].key = "x" /\ anims[n].el > 0


\* C11: the sequence {from: x=0; to: x=10} over 1000 ms, linear, with
\* iteration count 2, on a node whose x starts at 0, performs exactly two
\* iterations, leaves x = 10 when the run completes, and writes only values
\* in [0,10] to x.
C11_TwoIterationsWithinRange ==
  /\ \A n \in 1..Len(keyUpdates) :
       /\ keyUpdates[n].key = "x"
       /\ keyUpdates[n].v.k = "num"
       /\ keyUpdates[n].v.a[1] \in 0..10
  /\ props["x"].a[1] \in 0..10
  /\ lastKey.iterations <= 2
  /\ ActiveRuns(runs) # {} => lastKey.iterations < 2
  /\ (ActiveRuns(runs) = {} /\ animation # NoAnimation) =>
       lastKey.iterations = 2 /\ props["x"] = Num(10)

\* the run has completed in a refresh that wrote to x
C11_Witness ==
  /\ lastKey.op = "refresh"
  /\ lastKey.finished
  /\ lastKey.iterations = 2
  /\ keyUpdates # <<>>
  /\ props["x"] = Num(10)

\* the second iteration is under way and x is strictly between the frames
C11_MidRunWitness ==
  /\ ActiveRuns(runs) # {}
  /\ lastKey.iterations = 1
  /\ props["x"].a[1] \in 1..9

(***************************************************************************)
(* Claims about animateLerp, checked under SpecAnim.                       *)
(***************************************************************************)
CountFn(s, f) == Cardinality({i \in 1..Len(s) : s[i].fn = f})

\* the inputs for which animateLerp samples: numbers or arrays, and a
\* positive finite duration
AnimatableInput ==
  /\ from.k \in {"num", "arr"}
  /\ to.k \in {"num", "arr"}
  /\ durationMs.finite
  /\ durationMs.ms > 0

\* C8: with animatable from/to and a positive finite duration, onUpdate is
\* called once per display-refresh sample while the elapsed time is below the
\* duration and once more on the sample that reaches it; onComplete is called
\* exactly once, right after that last onUpdate, and nothing is called later.
C8_UpdatePerSampleCompleteOnce ==
  AnimatableInput =>
    /\ CountFn(calls, "onUpdate") = samples
    /\ phase = "idle" => calls = <<>>
    /\ phase = "running" =>
         /\ CountFn(calls, "onComplete") = 0
         /\ elapsed < durationMs.ms
    /\ phase = "done" =>
         /\ CountFn(calls, "onComplete") = 1
         /\ Len(calls) = samples + 1
         /\ calls[Len(calls)].fn = "onComplete"
         /\ elapsed >= durationMs.ms
         /\ elapsed - durationMs.ms < MaxDelta

C8_Witness ==
  /\ AnimatableInput
  /\ phase = "done"
  /\ samples >= 2

\* what lerpValue yields at t = 1: `to`, followed by the elements of `from`
\* beyond the length of `to` when both are arrays
FinalSample ==
  IF from.k = "arr" /\ to.k = "arr" /\ Len(from.a) > Len(to.a)
    THEN Arr([i \in 1..Len(from.a) |-> IF i <= Len(to.a) THEN to.a[i] ELSE from.a[i]])
    ELSE to

LastIs(v) ==
  /\ Len(calls) >= 2
  /\ calls[Len(calls)] = Complete(v)
  /\ calls[Len(calls) - 1] = Update(v, One)

\* C9 as stated: the last sample passed to onUpdate and to onComplete is
\* exactly `to`, at t = 1, for every animatable pair.
C9_LastSampleIsTo == (AnimatableInput /\ phase = "done") => LastIs(to)

\* C9 amended: the last sample is taken at t = 1 and is `to` for numbers and
\* for arrays where `from` is not longer than `to`; where `from` is longer,
\* it is `to` followed by the trailing elements of `from`.
C9_LastSampleIsLerpAtOne == (AnimatableInput /\ phase = "done") => LastIs(FinalSample)

C9_Witness ==
  /\ AnimatableInput
  /\ phase = "done"
  /\ from.k = "arr" /\ to.k = "arr" /\ Len(from.a) > Len(to.a)
  /\ samples >= 2

\* C10: with a from or to that is neither a number nor an array, or a
\* duration that is not a positive finite number, the call schedules no frame
\* and invokes onUpdate(to, 1) once and then onComplete(to) once.
C10_InstantFinish ==
  (~AnimatableInput /\ phase # "idle") =>
    /\ phase = "done"
    /\ samples = 0
    /\ calls = <<Update(to, One), Complete(to)>>

C10_Witness ==
  /\ phase = "done"
  /\ isAnimatable(from) /\ isAnimatable(to)
  /\ durationMs.finite /\ durationMs.ms = 0

(***************************************************************************)
(* SpecLerpNumber: one caller of lerpNumber with any representable         *)
(* arguments.                                                              *)
(***************************************************************************)
LerpNumberCalled == LerpNumberCall /\ UNCHANGED <<animVars, assetVars, keyVars, cellVars, loopVars, ruleVars, initVars, declVars>>

SpecLerpNumberInit == LerpNumberInit /\ AnimIdle /\ AssetIdle /\ KeyIdle /\ CellIdle /\ LoopInit /\ RuleIdle /\ InitIdle /\ DeclIdle

SpecLerpNumberNext == LerpNumberCalled

SpecLerpNumber == SpecLerpNumberInit /\ [][SpecLerpNumberNext]_vars

\* C12: for all numbers a, b and every t in [0, 1], lerpNumber(a, b, 0) = a,
\* lerpNumber(a, b, 1) = b, and when a <= b the result does not decrease
\* as t grows.
C12_EndpointsAndMonotone ==
  lerpOut.fn = "lerpNumber" =>
    /\ lerpOut.at0 = lerpIn.a
    /\ lerpOut.at1 = lerpIn.b
    /\ (lerpIn.a <= lerpIn.b /\ lerpIn.t1 <= lerpIn.t2) => lerpOut.atT1 <= lerpOut.atT2

\* the parts of C12 that the formula does satisfy
C12_StartAndMonotone ==
  lerpOut.fn = "lerpNumber" =>
    /\ lerpOut.at0 = lerpIn.a
    /\ (lerpIn.a <= lerpIn.b /\ lerpIn.t1 <= lerpIn.t2) => lerpOut.atT1 <= lerpOut.atT2

(***************************************************************************)
(* SpecLerpArray: one caller of lerpArray with arrays of any two lengths.  *)
(***************************************************************************)
LerpArrayCalled == LerpArrayCall /\ UNCHANGED <<animVars, assetVars, keyVars, cellVars, loopVars, ruleVars, initVars, declVars>>

SpecLerpArrayInit == LerpArrayInit /\ AnimIdle /\ AssetIdle /\ KeyIdle /\ CellIdle /\ LoopInit /\ RuleIdle /\ InitIdle /\ DeclIdle

SpecLerpArrayNext == LerpArrayCalled

SpecLerpArray == SpecLerpArrayInit /\ [][SpecLerpArrayNext]_vars

\* C13: lerpArray returns an array as long as the longer argument; element i
\* is the interpolation where both arrays have an element i, from[i] where
\* only `from` has one and to[i] where only `to` has one; and
\* lerpArray([1,2,3,4], [10,20,30], 0.5) is [5.5, 11, 16.5, 4].
C13_LongestLengthAndRouting ==
  lerpOut.fn = "lerpArray" =>
    /\ Len(lerpOut.out) = Max(Len(lerpIn.from), Len(lerpIn.to))
    /\ \A i \in 1..Len(lerpOut.out) :
         /\ (i <= Len(lerpIn.from) /\ i <= Len(lerpIn.to)) =>
              lerpOut.out[i] =
                lerpIn.from[i]
                  + ((lerpIn.to[i] - lerpIn.from[i]) * lerpIn.num) \div lerpIn.den
         /\ (i <= Len(lerpIn.from) /\ i > Len(lerpIn.to)) =>
              lerpOut.out[i] = lerpIn.from[i]
         /\ (i > Len(lerpIn.from) /\ i <= Len(lerpIn.to)) =>
              lerpOut.out[i] = lerpIn.to[i]
    /\ (lerpIn.from = ExampleFrom /\ lerpIn.to = ExampleTo) =>
         lerpOut.out = <<11, 22, 33, 8>>

\* the example of C13 has been computed
C13_Witness ==
  /\ lerpOut.fn = "lerpArray"
  /\ lerpIn.from = ExampleFrom
  /\ lerpIn.to = ExampleTo
  /\ lerpOut.out = <<11, 22, 33, 8>>

\* a call whose `to` is the longer array, with an interpolated element
C13_LongerToWitness ==
  /\ lerpOut.fn = "lerpArray"
  /\ Len(lerpIn.to) > Len(lerpIn.from)
  /\ Len(lerpIn.from) > 0
  /\ lerpIn.num = 1
  /\ lerpIn.den = 2
  /\ lerpOut.out[1] = 4
  /\ lerpOut.out[Len(lerpOut.out)] = lerpIn.to[Len(lerpIn.to)]

(***************************************************************************)
(* SpecScan: scripts scan, remove, add, move and re-insert elements of a   *)
(* document that has camera elements.                                      *)
(***************************************************************************)
\* <mesh id="a">, <div>, <camera>, <camera render class="c">
CameraElements ==
  <<Element("mesh", "a", <<>>, FALSE, FALSE), Element("div", "", <<>>, FALSE, FALSE),
    Camera(FALSE), [Camera(TRUE) EXCEPT !.classes = <<"c">>]>>

ScanDocuments ==
  { Tree(<<1>>, <<2>>, <<3>>, <<>>, <<>>),
    Tree(<<2>>, <<>>, <<3, 4>>, <<>>, <<>>),
    Tree(<<3>>, <<>>, <<>>, <<4>>, <<1>>) }

ScanScript(e) == ScanCall(e) /\ UNCHANGED <<animVars, assetVars, keyVars, lerpVars, loopVars, ruleVars, initVars, declVars>>

ScanRemove(e) == DomRemove(e) /\ UNCHANGED <<animVars, assetVars, keyVars, lerpVars, loopVars, ruleVars, initVars, declVars>>

ScanAdd(e, p) == DomAdd(e, p) /\ UNCHANGED <<animVars, assetVars, keyVars, lerpVars, loopVars, ruleVars, initVars, declVars>>

ScanObserved == DomFlush /\ UNCHANGED <<animVars, assetVars, keyVars, lerpVars, loopVars, ruleVars, initVars, declVars>>

SpecScanInit ==
  /\ \E d \in ScanDocuments :
       CellIs(Construct([Host(d, Selectors, 0) EXCEPT !.el = CameraElements]))
  /\ AnimIdle /\ AssetIdle /\ KeyIdle /\ LerpIdle /\ LoopInit /\ RuleIdle /\ InitIdle /\ DeclIdle

SpecScanNext ==
  \/ \E e \in Elems : ScanScript(e)
  \/ \E e \in Elems : ScanRemove(e)
  \/ \E e \in Elems, p \in Elems \cup {Root} : ScanAdd(e, p)
  \/ ScanObserved

SpecScan == SpecScanInit /\ [][SpecScanNext]_vars

\* C14: scanning an element that is already mapped creates no node, adds no
\* index entry and leaves the scene graph unchanged; scanning a subtree a
\* second time leaves the host (map, indices, scene graph, active camera)
\* as the first scan left it.
C14_ScanIdempotent ==
  (lastCell.op = "scan" /\ (lastCell.mapped \/ lastCell.again)) =>
    /\ lastCell.created = 0
    /\ ~lastCell.changed

\* a subtree whose first scan created nodes has been scanned again
C14_Witness ==
  /\ lastCell.op = "scan"
  /\ lastCell.again
  /\ lastCell.before > 0

\* an unrecognized wrapper over mapped elements has been scanned again
C14_WrapperWitness ==
  /\ lastCell.op = "scan"
  /\ lastCell.again
  /\ ~lastCell.mapped
  /\ ~ConvertDomToObject(attributes[lastCell.target])
  /\ \E c \in Range(dom[lastCell.target]) : allConvictsByDom[c] # 0

\* the nodes that are attached to the scene graph or present in an index
LiveNodes ==
  {n \in 1..(nextNode - 1) :
     \/ InScene(ThisCell, n)
     \/ n \in Range(namedConvicts) \cup Range(classyConvicts) \cup Range(constantConvicts)}

\* C15: after any sequence of scans, additions, removals, moves and
\* re-insertions, at most one live node (attached to the scene graph or
\* present in an index) has a given source element as its back-reference.
C15_OneLiveNodePerElement ==
  \A e \in Elems : Cardinality({n \in LiveNodes : nodeEl[n] = e}) <= 1

\* an element that was removed and inserted again has its second node
C15_Witness ==
  \E e \in Elems :
    /\ allConvictsByDom[e] \in LiveNodes
    /\ \E n \in 1..(nextNode - 1) : n # allConvictsByDom[e] /\ nodeEl[n] = e
    /\ lastCell.op = "flush"

(***************************************************************************)
(* SpecAttr: scripts change the id and the class of attached elements,     *)
(* remove elements and add them again.                                     *)
(***************************************************************************)
AttrIds == {"", "a"}

AttrClasses == {<<>>, <<"c">>}

\* the elements the scripts work on: <mesh id="a"> and <mesh class="c">
AttrTargets == {1, 3}

AttrDocuments ==
  { Tree(<<1>>, <<3>>, <<>>, <<>>, <<>>),
    Tree(<<3, 1>>, <<>>, <<>>, <<>>, <<>>) }

AttrSetId(e, id) == SetId(e, id) /\ UNCHANGED <<animVars, assetVars, keyVars, lerpVars, loopVars, ruleVars, initVars, declVars>>

AttrSetClass(e, classes) ==
  SetClass(e, classes) /\ UNCHANGED <<animVars, assetVars, keyVars, lerpVars, loopVars, ruleVars, initVars, declVars>>

AttrRemove(e) == DomRemove(e) /\ UNCHANGED <<animVars, assetVars, keyVars, lerpVars, loopVars, ruleVars, initVars, declVars>>

AttrAdd(e, p) == DomAdd(e, p) /\ UNCHANGED <<animVars, assetVars, keyVars, lerpVars, loopVars, ruleVars, initVars, declVars>>

AttrObserved == DomFlush /\ UNCHANGED <<animVars, assetVars, keyVars, lerpVars, loopVars, ruleVars, initVars, declVars>>

SpecAttrInit ==
  /\ CellInit(AttrDocuments, {Selectors}, {OtherCamera})
  /\ AnimIdle /\ AssetIdle /\ KeyIdle /\ LerpIdle /\ LoopInit /\ RuleIdle /\ InitIdle /\ DeclIdle

SpecAttrNext ==
  \/ \E e \in AttrTargets, id \in AttrIds : AttrSetId(e, id)
  \/ \E e \in AttrTargets, classes \in AttrClasses : AttrSetClass(e, classes)
  \/ \E e \in AttrTargets : AttrRemove(e)
  \/ \E e \in AttrTargets, p \in {Root} \cup AttrTargets : AttrAdd(e, p)
  \/ AttrObserved

SpecAttr == SpecAttrInit /\ [][SpecAttrNext]_vars

Occurrences(arry, item) == Cardinality({i \in 1..Len(arry) : arry[i] = item})

\* C16: once the pending mutations have been handled, every mapped node
\* whose element currently has an id is in the id index exactly once, and
\* every mapped node whose element currently has a class is in the class
\* index: an element that gains an id or its first class after its scan
\* becomes indexed.
C16_IndexedByCurrentAttributes ==
  mutationRecords = <<>> =>
    \A e \in Elems :
      allConvictsByDom[e] # 0 =>
        /\ attributes[e].id # "" => Occurrences(namedConvicts, allConvictsByDom[e]) = 1
        /\ attributes[e].classes # <<>> => allConvictsByDom[e] \in Range(classyConvicts)

\* a loaded stylesheet has an :active rule for the id or a current class of e
ActiveRuleFor(e) ==
  \/ attributes[e].id # "" /\ getCSSRule(styleSheet, Sel("id", attributes[e].id, ":active"))
  \/ hasActiveRule(styleSheet, attributes[e].classes)

\* C17: once a mutation or a stylesheet change has been processed, a mapped
\* node is in the always-repaint set exactly when a loaded stylesheet has an
\* :active rule for its id or for one of its current classes.
C17_AlwaysRepaintIffActiveRule ==
  (mutationRecords = <<>> /\ ~pendingStyleRepaint) =>
    \A e \in Elems :
      allConvictsByDom[e] # 0 =>
        (allConvictsByDom[e] \in Range(constantConvicts) <=> ActiveRuleFor(e))

(***************************************************************************)
(* SpecLoop: the render loop of a cell, scripts that register and remove   *)
(* per-frame callbacks, edit the stylesheet and dispose of the cell.       *)
(***************************************************************************)
LoopDocuments == {Tree(<<3, 4>>, <<>>, <<>>, <<>>, <<>>)}

LoopSelectors == {Sel("class", "c", ""), Sel("id", "b", ":active")}

LoopRegister(fn) ==
  addUpdateFunction(fn) /\ UNCHANGED <<animVars, assetVars, keyVars, lerpVars, ruleVars, initVars, declVars>>

LoopUnregister(fn) ==
  removeUpdateFunction(fn) /\ UNCHANGED <<animVars, assetVars, keyVars, lerpVars, ruleVars, initVars, declVars>>

LoopDispose == Dispose /\ UNCHANGED <<animVars, assetVars, keyVars, lerpVars, ruleVars, initVars, declVars>>

LoopStyleEdited(sel) ==
  LoopStyleMutation(sel) /\ UNCHANGED <<animVars, assetVars, keyVars, lerpVars, ruleVars, initVars, declVars>>

LoopFrame == Frame /\ UNCHANGED <<animVars, assetVars, keyVars, lerpVars, ruleVars, initVars, declVars>>

SpecLoopInit ==
  /\ CellInit(LoopDocuments, {Selectors}, {0, OtherCamera})
  /\ LoopInit /\ RuleIdle /\ InitIdle /\ DeclIdle
  /\ AnimIdle /\ AssetIdle /\ KeyIdle /\ LerpIdle

SpecLoopNext ==
  \/ \E fn \in {"plain", "dispose"} : LoopRegister(fn)
  \/ \E fn \in {"plain", "dispose"} : LoopUnregister(fn)
  \/ LoopDispose
  \/ \E sel \in LoopSelectors : LoopStyleEdited(sel)
  \/ LoopFrame

SpecLoop == SpecLoopInit /\ [][SpecLoopNext]_vars

C18_DisposedWitness ==
  /\ lastTick.op = "frame"
  /\ ~lastTick.wasRunning
  /\ lastTick.ticks = 1
  /\ Len(lastTick.funds) > 1

\* C19: after dispose() has returned no callback of the cell fires: a
\* stylesheet repaint requested for the next display refresh before the
\* dispose() paints no node afterwards, and no handler of the cell runs.
C19_NothingFiresAfterDispose ==
  (lastTick.op = "frame" /\ ~lastTick.wasRunning) =>
    /\ lastTick.log = <<>>
    /\ paints = <<>>
    /\ events = <<>>

(***************************************************************************)
(* SpecPaint: every kind of repaint of a cell: the initial paint, pointer  *)
(* events, stylesheet edits with the refresh that repaints, an added       *)
(* element.                                                                *)
(***************************************************************************)
\* <mesh id="b" class="c"> in the cell and <mesh class="c" style> not yet added,
\* or the other way round
PaintDocuments ==
  {Tree(<<4>>, <<>>, <<>>, <<>>, <<>>), Tree(<<3>>, <<>>, <<>>, <<>>, <<>>)}

PaintSelectors == {Sel("class", "c", ":hover")}

\* the elements the scripts add
PaintTargets == {3, 4}

PaintMove(hit) ==
  PointerMove(hit) /\ UNCHANGED <<animVars, assetVars, keyVars, lerpVars, loopVars, ruleVars, initVars, declVars>>

PaintButton(type) ==
  PointerButton(type) /\ UNCHANGED <<animVars, assetVars, keyVars, lerpVars, loopVars, ruleVars, initVars, declVars>>

PaintStyleEdited(sel) ==
  StyleMutation(sel) /\ UNCHANGED <<animVars, assetVars, keyVars, lerpVars, loopVars, ruleVars, initVars, declVars>>

PaintRefresh == Refresh /\ UNCHANGED <<animVars, assetVars, keyVars, lerpVars, loopVars, ruleVars, initVars, declVars>>

PaintAdd(e, p) ==
  DomAdd(e, p) /\ UNCHANGED <<animVars, assetVars, keyVars, lerpVars, loopVars, ruleVars, initVars, declVars>>

PaintObserved == DomFlush /\ UNCHANGED <<animVars, assetVars, keyVars, lerpVars, loopVars, ruleVars, initVars, declVars>>

SpecPaintInit ==
  /\ CellInit(PaintDocuments, {Selectors}, {OtherCamera})
  /\ AnimIdle /\ AssetIdle /\ KeyIdle /\ LerpIdle /\ LoopInit /\ RuleIdle /\ InitIdle /\ DeclIdle

SpecPaintNext ==
  \/ \E hit \in 0..MaxNodes : PaintMove(hit)
  \/ \E type \in {"mousedown", "mouseup"} : PaintButton(type)
  \/ \E sel \in PaintSelectors : PaintStyleEdited(sel)
  \/ PaintRefresh
  \/ \E e \in PaintTargets : PaintAdd(e, Root)
  \/ PaintObserved

SpecPaint == SpecPaintInit /\ [][SpecPaintNext]_vars

\* the layer of a rule: base class, base id, pseudo-state, inline
LayerOf(sel) ==
  IF sel = Inline THEN 4 ELSE IF sel.p # "" THEN 3 ELSE IF sel.t = "id" THEN 2 ELSE 1

\* the rules of the layers of node n that the last handler applied to it, in
\* order: every rule but those of pseudo-states that are not flagged
PaintsOf(n) ==
  SelectSeq(paints,
            LAMBDA q : q.n = n /\ (LayerOf(q.sel) = 3 => q.sel.p \in Range(extraParams[n])))

\* the position of the last rule of a layer among the rules applied, 0 for none
LastOf(applied, layer) ==
  IF \E i \in 1..Len(applied) : LayerOf(applied[i].sel) = layer
    THEN CHOOSE i \in 1..Len(applied) :
           /\ LayerOf(applied[i].sel) = layer
           /\ \A k \in (i + 1)..Len(applied) : LayerOf(applied[k].sel) # layer
    ELSE 0

\* a stylesheet has a rule for a flagged pseudo-state of node n
FlaggedRule(n) ==
  \E i \in 1..Len(extraParams[n]) :
    \/ domId[n] # "" /\ getCSSRule(styleSheet, Sel("id", domId[n], extraParams[n][i]))
    \/ \E j \in 1..Len(classList[n]) :
         getCSSRule(styleSheet, Sel("class", classList[n][j], extraParams[n][i]))

\* the last handler applied the layers of every node it painted so that a
\* higher layer comes after every lower one, the top layer last
LayersInOrder ==
  \A n \in {paints[i].n : i \in 1..Len(paints)} :
    LET applied == PaintsOf(n) IN
    /\ \A lower \in 1..4, higher \in 1..4 :
         (lower < higher /\ LastOf(applied, lower) > 0 /\ LastOf(applied, higher) > 0) =>
           LastOf(applied, lower) < LastOf(applied, higher)
    /\ attributes[nodeEl[n]].style => LastOf(applied, 4) = Len(applied) /\ applied # <<>>
    /\ (~attributes[nodeEl[n]].style /\ FlaggedRule(n)) =>
         LastOf(applied, 3) = Len(applied) /\ applied # <<>>

\* the last handler was the observer callback or a stylesheet repaint
MuseRepaint ==
  \/ lastCell.op = "flush"
  \/ lastCell.op = "refresh" /\ lastCell.repaints > 0

\* the last handler was a pointer handler
PointerRepaint == lastCell.op \in {"move", "mousedown", "mouseup"}

\* C20: every repaint of a node (the initial paint, the repaint of an added
\* element, the stylesheet repaint, the repaint after a pointer event)
\* applies its layers in the order base class rules, base id rule, rules of
\* the flagged pseudo-states, inline declarations, so that the repaint
\* leaves a higher layer applied after every lower one: the inline
\* declarations last when the element has any, a rule of a flagged
\* pseudo-state after the base rules.
C20_LayersInOrderInlineLast ==
  (lastCell.op = "none" \/ MuseRepaint \/ PointerRepaint) => LayersInOrder

\* the part of C20 that holds: the repaint of an added element and the
\* stylesheet repaint, which end in paintSpecificMuse
C20_MuseRepaintsInOrder == MuseRepaint => LayersInOrder

\* the initial paint leaves out the inline declarations
C20_InitialPaintInOrder == lastCell.op = "none" => LayersInOrder

\* the repaint after a pointer event applies pseudo-state rules only
C20_PointerRepaintInOrder == PointerRepaint => LayersInOrder


(***************************************************************************)
(* SpecRule: repaints of one node with rules that set its properties, the  *)
(* display refreshes that run its transitions and the settling of the      *)
(* assets its rules refer to.                                              *)
(***************************************************************************)
RulePaint(rule) == ApplyRule(rule) /\ UNCHANGED <<animVars, keyVars, cellVars, lerpVars, loopVars, initVars, declVars>>

RuleRefresh(d) == TweenFrame(d) /\ UNCHANGED <<animVars, keyVars, cellVars, lerpVars, loopVars, initVars, declVars>>

RuleAssetFulfilled(l) == RuleLoadFulfilled(l) /\ UNCHANGED <<animVars, keyVars, cellVars, lerpVars, loopVars, initVars, declVars>>

RuleAssetRejected(l) == RuleLoadRejected(l) /\ UNCHANGED <<animVars, keyVars, cellVars, lerpVars, loopVars, initVars, declVars>>

SpecRuleInit ==
  /\ RuleInit
  /\ AssetInit
  /\ assetRules \subseteq {"ship"}
  /\ AnimIdle /\ KeyIdle /\ CellIdle /\ LerpIdle /\ LoopInit /\ InitIdle /\ DeclIdle

SpecRuleNext ==
  \/ \E rule \in Rules : RulePaint(rule)
  \/ \E d \in 1..MaxDelta : RuleRefresh(d)
  \/ \E l \in inFlight : RuleAssetFulfilled(l)
  \/ \E l \in inFlight : RuleAssetRejected(l)

SpecRule == SpecRuleInit /\ [][SpecRuleNext]_vars

\* the requests that declare property k, by their position in call order
RequestsOn(k) == {i \in 1..Len(requests) : requests[i].key = k}

\* no assignment to property k is still to come
Quiet(k) ==
  /\ \A i \in 1..Len(thens) : thens[i].key # k
  /\ \A i \in 1..Len(tweens) : tweens[i].key # k

\* the request resolved to a value that was assigned at once
PlainlyAssigned(i) ==
  /\ requests[i].value.k \in {"num", "arr", "other"}
  /\ requests[i].value # NullValue
  /\ ~requests[i].animated

\* C21: when two paints assign the same property of the node and the value
\* of at least one of them resolves asynchronously (a pending asset), then
\* once every resolution has completed the property holds the value of the
\* paint that was called later, whatever order the resolutions complete in.
C21_LaterPaintWins ==
  \A k \in Keys : \A i, j \in RequestsOn(k) :
    ( /\ requests[i].paint < requests[j].paint
      /\ \A m \in RequestsOn(k) : m <= j /\ PlainlyAssigned(m)
      /\ requests[i].deferred \/ requests[j].deferred
      /\ Quiet(k) )
    => values[k] = requests[j].value

\* the TransitionFinished events dispatched for request i
NoticesOf(i) == {n \in 1..Len(notices) : notices[n].id = i}

Scheduled(i) == \E n \in 1..Len(tweens) : tweens[n].id = i

\* assignValue has run for request i with a value other than undefined
Assigned(i) == requests[i].value.k \in {"num", "arr", "other"}

\* the case of the transition: one is active and both values are numeric
Transitioned(i) ==
  /\ requests[i].duration > 0
  /\ isAnimatable(requests[i].before)
  /\ isAnimatable(requests[i].value)

\* the value the transition of request i ends at: lerpValue(from, to, 1)
EndOf(i) == lerpValue(requests[i].before, requests[i].value, 1, 1)

\* what holds of every assignment whatever value its transition ends at
TransitionOrImmediate(i, end) ==
  IF Transitioned(i)
    THEN /\ requests[i].after = requests[i].before
         /\ Cardinality(NoticesOf(i)) <= 1
         /\ Scheduled(i) <=> NoticesOf(i) = {}
         /\ \A n \in NoticesOf(i) :
              /\ notices[n].value = end
              /\ notices[n].due
    ELSE /\ requests[i].after = requests[i].value
         /\ NoticesOf(i) = {}
         /\ ~Scheduled(i)

\* C22 (as stated): an assignment of a number or numeric array to a numeric
\* property of a node with an active transition of duration > 0 does not set
\* the property in that step; the property reaches the NEW VALUE through an
\* animation over the duration and exactly one TransitionFinished is
\* dispatched, after the property has reached it.  Every other assignment
\* is immediate and dispatches nothing.
C22_TransitionReachesNewValue ==
  \A i \in 1..Len(requests) :
    Assigned(i) => TransitionOrImmediate(i, requests[i].value)

\* C22 (amended): the same, where the value the property has reached when
\* the one TransitionFinished is dispatched is lerpValue(current, new, 1):
\* the new value, followed by the trailing elements of the current value
\* when that is the longer array.
C22_TransitionReachesLerpEnd ==
  \A i \in 1..Len(requests) :
    Assigned(i) => TransitionOrImmediate(i, EndOf(i))

\* a number animated to a number has finished with its one notification,
\* and another assignment was immediate
C22_Witness ==
  \E i, j \in 1..Len(requests) :
    /\ Assigned(i) /\ Transitioned(i)
    /\ requests[i].before = Num(0) /\ requests[i].value = Num(4)
    /\ \E n \in NoticesOf(i) : notices[n].value = Num(4) /\ values.x = Num(4)
    /\ Assigned(j) /\ ~Transitioned(j) /\ requests[j].after = requests[j].value

\* a two-element array animated to a one-element array has finished
C22_LongerCurrentWitness ==
  \E i \in 1..Len(requests) :
    /\ Assigned(i) /\ Transitioned(i)
    /\ requests[i].before = Arr(<<0, 0>>) /\ requests[i].value = Arr(<<4>>)
    /\ \E n \in NoticesOf(i) : notices[n].value = Arr(<<4, 0>>)

\* the value of request i could not be resolved: a missing asset or one
\* whose load failed (null), or a reference to an unknown id (undefined)
Unresolved(i) ==
  /\ requests[i].raw.k \in {"asset", "node"}
  /\ requests[i].value \in {NullValue, UndefinedValue}

\* the rule of request i declares another property, which was assigned or
\* whose transition was started
RestApplied(i) ==
  \E j \in 1..Len(requests) :
    /\ requests[j].paint = requests[i].paint
    /\ requests[j].key # requests[i].key
    /\ requests[j].after = requests[j].value \/ requests[j].animated

\* C27: painting a rule with a property whose value cannot be resolved (an
\* asset name that is missing with no path, an asset whose load failed, a
\* cross-node reference to an unknown id) is a no-op for that property: it
\* keeps the value it had before, and the remaining properties of the rule
\* are still applied.
C27_UnresolvedIsNoOp ==
  \A i \in 1..Len(requests) :
    Unresolved(i) => requests[i].after = requests[i].before /\ RestApplied(i)

\* the part that holds: a reference to an unknown id leaves the property
\* alone, and in all three cases the rest of the rule is applied
C27_UnknownIdIsNoOp ==
  \A i \in 1..Len(requests) :
    Unresolved(i) =>
      /\ requests[i].value = UndefinedValue => requests[i].after = requests[i].before
      /\ requests[i].value = NullValue => requests[i].after = NullValue
      /\ RestApplied(i)

\* C28: when a transition of a property is still in progress and a later
\* repaint starts a new transition of the same property, then once both have
\* completed the property holds the target of the one started later,
\* whatever the two durations are.
C28_LaterAnimationWins ==
  \A k \in Keys : \A i, j \in RequestsOn(k) :
    ( /\ Transitioned(i) /\ Transitioned(j)
      /\ i \in requests[j].over
      /\ \A m \in RequestsOn(k) : m <= j /\ Assigned(m) /\ ~requests[m].deferred
      /\ NoticesOf(i) # {} /\ NoticesOf(j) # {}
      /\ Quiet(k) )
    => values[k] = EndOf(j)

\* what holds instead: the property holds the end value of the transition
\* that completed last
C28_LastToCompleteWins ==
  \A k \in Keys : \A i, j \in RequestsOn(k) :
    ( /\ Transitioned(i) /\ Transitioned(j)
      /\ i \in requests[j].over
      /\ \A m \in RequestsOn(k) : m <= j /\ Assigned(m) /\ ~requests[m].deferred
      /\ NoticesOf(i) # {} /\ NoticesOf(j) # {}
      /\ Quiet(k) )
    => \E n \in 1..Len(notices) :
         /\ notices[n].key = k
         /\ \A m \in 1..Len(notices) : notices[m].key = k => m <= n
         /\ values[k] = EndOf(notices[n].id)

(***************************************************************************)
(* Claims about the picking layer, checked under SpecPick: every node was  *)
(* scanned by the constructor, which then ran paintCell.                   *)
(***************************************************************************)
\* the nodes of the elements the host has scanned
ScannedNodes == {allConvictsByDom[e] : e \in Elems} \ {0}

\* a base class or id rule of the stylesheet matches the node
HasBaseRule(n) ==
  \/ \E i \in 1..Len(classList[n]) : getCSSRule(styleSheet, Sel("class", classList[n][i], ""))
  \/ domId[n] # "" /\ getCSSRule(styleSheet, Sel("id", domId[n], ""))

\* C24: once a node has been scanned and the host's paint for it has run,
\* it is on the pickable layer if its source element declares a direct
\* interaction handler attribute or a loaded stylesheet has a :hover or
\* :focus rule for its id or one of its classes, and off it otherwise; this
\* holds for every scanned node, including one matched by no base class/id
\* rule and having no inline declarations.
C24_PickableLayerFollowsHandlersAndRules ==
  \A n \in ScannedNodes : n \in layers <=> pickable(ThisCell, n)

\* what holds: the layer follows the test for the nodes a base rule
\* matches, and no other node is ever on the layer
C24_PickableLayerWhereRuleApplied ==
  \A n \in ScannedNodes :
    /\ HasBaseRule(n) => (n \in layers <=> pickable(ThisCell, n))
    /\ n \in layers => HasBaseRule(n) /\ pickable(ThisCell, n)

(***************************************************************************)
(* SpecBatch: scripts add and remove mesh elements, one of which has       *)
(* inline declarations whose paint raises an error; the observer callback  *)
(* then receives the records as one batch.                                 *)
(***************************************************************************)
\* <mesh id="a" onclick>, <mesh style="--position-x-w: 1">, <mesh class="c">,
\* <mesh id="b" class="c">
BatchElements ==
  <<Element("mesh", "a", <<>>, TRUE, FALSE),
    Broken(Element("mesh", "", <<>>, FALSE, TRUE)),
    Element("mesh", "", <<"c">>, FALSE, FALSE),
    Element("mesh", "b", <<"c">>, FALSE, FALSE)>>

\* elements 2 and 3 start outside the document
BatchDocuments ==
  { Tree(<<1, 4>>, <<>>, <<>>, <<>>, <<>>),
    Tree(<<1>>, <<4>>, <<>>, <<>>, <<>>) }

BatchRemove(e) == DomRemove(e) /\ UNCHANGED <<animVars, assetVars, keyVars, lerpVars, loopVars, ruleVars, initVars, declVars>>

BatchAdd(e, p) == DomAdd(e, p) /\ UNCHANGED <<animVars, assetVars, keyVars, lerpVars, loopVars, ruleVars, initVars, declVars>>

BatchObserved == DomFlush /\ UNCHANGED <<animVars, assetVars, keyVars, lerpVars, loopVars, ruleVars, initVars, declVars>>

SpecBatchInit ==
  /\ \E d \in BatchDocuments :
       CellIs(Construct([Host(d, Selectors, 0) EXCEPT !.el = BatchElements]))
  /\ AnimIdle /\ AssetIdle /\ KeyIdle /\ LerpIdle /\ LoopInit /\ RuleIdle /\ InitIdle /\ DeclIdle

SpecBatchNext ==
  \/ \E e \in Elems : BatchRemove(e)
  \/ \E e \in Elems, p \in Elems \cup {Root} : BatchAdd(e, p)
  \/ BatchObserved

SpecBatch == SpecBatchInit /\ [][SpecBatchNext]_vars

\* the callback has handled every record queued so far
BatchHandled == lastCell.op = "flush" /\ mutationRecords = <<>>

CallbackKeepsDocument == lastCell'.op = "flush" => dom' = dom

\* C30: the engine only observes source elements and never changes the
\* document tree: no operation of a host (scan, paint, mutation handling,
\* node removal, dispose) removes, inserts or moves a source element.
C30_EngineNeverChangesDocument == [][CallbackKeepsDocument]_vars

\* what holds: the callback inserts no element and moves none; it only
\* detaches elements
C30_EngineOnlyDetaches ==
  [][lastCell'.op = "flush" =>
       \A p \in Elems \cup {Root} : Range(dom'[p]) \subseteq Range(dom[p])]_vars

(***************************************************************************)
(* SpecInit: the <cell> elements of a document are converted to hosts.     *)
(***************************************************************************)
InitPass == InitConvert /\ UNCHANGED <<animVars, assetVars, keyVars, cellVars, lerpVars, loopVars, ruleVars, declVars>>

InitCreate(cellEl) == CreateRenderer(cellEl) /\ UNCHANGED <<animVars, assetVars, keyVars, cellVars, lerpVars, loopVars, ruleVars, declVars>>

InitInsert(cellEl) == InsertCell(cellEl) /\ UNCHANGED <<animVars, assetVars, keyVars, cellVars, lerpVars, loopVars, ruleVars, declVars>>

SpecInitInit ==
  /\ InitInit
  /\ AnimIdle /\ AssetIdle /\ KeyIdle /\ CellIdle /\ LerpIdle /\ LoopInit /\ RuleIdle /\ DeclIdle

SpecInitNext ==
  \/ InitPass
  \/ \E cellEl \in Roots : InitCreate(cellEl)
  \/ \E cellEl \in Roots : InitInsert(cellEl)

SpecInit == SpecInitInit /\ [][SpecInitNext]_vars

\* C26: if creating the host for one root fails because no graphics context
\* can be obtained, the error aborts only that root's host: the hosts of all
\* other roots in the document, including roots that come after the failing
\* one in the same initialization pass, are still created.
C26_FailureAbortsOnlyThatRoot ==
  lastInit.op = "init_convert" =>
    \A r \in cells : r \notin noContext => r \in loadedCells

\* what holds: the pass creates the hosts of the roots before the first
\* failing one and none after it; hosts that existed are kept
C26_PassStopsAtFirstFailure ==
  lastInit.op = "init_convert" =>
    /\ lastInit.before \subseteq loadedCells
    /\ loadedCells \cap noContext = {}
    /\ \A r \in cells :
         r \in loadedCells <=>
           \/ r \in lastInit.before
           \/ \A q \in cells : q <= r => q \notin noContext

(***************************************************************************)
(* Claims about the hover and active flags, checked under SpecPick.        *)
(***************************************************************************)
\* the events of the last handler that have the given type
EventsOfType(type) == {i \in 1..Len(events) : events[i].type = type}

\* C31: on a pointer-move whose topmost hit B differs from lastHit A, at the
\* moment the enter event is delivered to B the hover flag has already been
\* removed from A and already been set on B.
C31_HoverMovedBeforeEnter ==
  (focusedCamera # 0 /\ MovedOnto) =>
    /\ EventsOfType("cellmouseenter") # {}
    /\ \A i \in EventsOfType("cellmouseenter") :
         /\ lastCell.prev \notin events[i].hover
         /\ lastCell.hit \in events[i].hover

\* what holds: the enter event finds the flag removed from A; B carries it
\* from the hover event on
C31_HoverSetAfterEnter ==
  (focusedCamera # 0 /\ MovedOnto) =>
    /\ EventsOfType("cellmouseenter") # {}
    /\ \A i \in EventsOfType("cellmouseenter") : events[i].hover = {}
    /\ \A i \in EventsOfType("cellhover") : events[i].hover = {lastCell.hit}

\* C40: after a mouse-down followed, after any number of pointer-moves in
\* between, by a mouse-up in the same host, no node of that host carries the
\* active flag.
C40_NoActiveAfterMouseUp ==
  (lastCell.op = "mouseup" /\ lastCell.pressed) => Active = {}

\* what holds: the mouse-up clears the flag of the node that is lastHit at
\* that time, and only the node that was lastHit at the mouse-down can
\* carry the flag
C40_MouseUpClearsLastHit ==
  /\ lastCell.op \in {"mousedown", "move", "mouseup"} /\ lastCell.pressed
       => Cardinality(Active) <= 1
  /\ lastCell.op = "mouseup" /\ lastCell.pressed
       => last_cast_caught \notin Active

\* the nodes that carry the hover flag
Hovered == {n \in 1..MaxNodes : ":hover" \in Range(extraParams[n])}

\* C34: after every pointer-event handling step of a host, at most one node
\* of that host carries the hover flag, and a node carries it only if it is
\* the host's lastHit; when lastHit is null no node of the host carries the
\* hover flag.
C34_HoverOnlyOnLastHit ==
  /\ Cardinality(Hovered) <= 1
  /\ \A n \in Hovered : n = last_cast_caught
  /\ last_cast_caught = 0 => Hovered = {}

\* the pointer has moved from one hovered node onto another
C34_Witness ==
  /\ MovedOnto
  /\ Hovered = {lastCell.hit}
  /\ events[1].type = "cellmouseleave"
  /\ last_cast_caught = lastCell.hit

\* the pointer has left the hovered node for empty space
C34_NullWitness ==
  /\ lastCell.op = "move"
  /\ lastCell.prev # 0
  /\ last_cast_caught = 0
  /\ Hovered = {}

(***************************************************************************)
(* SpecParse: --animation declarations of the grammar applied to a node.   *)
(***************************************************************************)
ParseAnimation(s) ==
  SetAnimation(Written(s)) /\ UNCHANGED <<animVars, assetVars, keyVars, cellVars, lerpVars, loopVars, ruleVars, initVars>>

SpecParseInit ==
  /\ DeclIdle
  /\ AnimIdle /\ AssetIdle /\ KeyIdle /\ CellIdle /\ LerpIdle /\ LoopInit /\ RuleIdle /\ InitIdle

SpecParseNext == \E s \in Declarations : ParseAnimation(s)

SpecParse == SpecParseInit /\ [][SpecParseNext]_vars

\* the config a declaration asks for: its name, its duration in
\* milliseconds, its iteration count and its easing, with the defaults for
\* the parts left out
Declared(s) ==
  [name |-> s.name,
   duration |-> IF s.duration = <<>> THEN 1000
                ELSE IF s.duration[1].unit = "s" THEN s.duration[1].n * 1000
                ELSE s.duration[1].n,
   count |-> IF s.count = <<>> THEN 1
             ELSE IF s.count[1] = Word("infinite") THEN Infinite
             ELSE s.count[1].n,
   timing |-> IF s.easing = <<>> THEN <<Word("linear")>> ELSE s.easing]

\* the ways the grammar reads the declaration applied last
Readings == {s \in Declarations : Written(s) = declaration}

\* C32: for every animation declaration that matches the grammar
\* <name> [<duration>[ms|s]] [infinite|<count>] [<easing...>], the stored
\* animation config has that name, that duration in milliseconds, that
\* iteration count and that easing, with 1000ms, 1 iteration and linear
\* easing for the parts left out; in particular a declaration giving a count
\* followed by an easing yields that count and that easing.  A declaration
\* the grammar reads in two ways may be stored as either.
C32_ConfigAsDeclared ==
  declaration # <<>> => \E s \in Readings : parsedAnimation = Declared(s)

\* what holds: the config is the declared one when the name is in lower
\* case and no easing follows a numeric count
C32_ConfigWhenCountIsLast ==
  (\E s \in Readings : /\ s.name = toLowerCase(s.name)
                       /\ s.easing = <<>> \/ s.count \in {<<>>, <<Word("infinite")>>})
    => \E s \in Readings : parsedAnimation = Declared(s)

(***************************************************************************)
(* Claims about the element map after the observer has run, checked under  *)
(* SpecDom.                                                                *)
(***************************************************************************)
\* the element has a node that is still part of the scene graph
HasLiveNode(e) == allConvictsByDom[e] # 0 /\ InScene(ThisCell, allConvictsByDom[e])

\* the recognized-tag elements that are in the subtree of the cell element
RecognizedInSubtree == {e \in Elems : IsAttached(dom, e) /\ ConvertDomToObject(attributes[e])}

\* C33: once every pending mutation batch of a host has been processed, the
\* host maps exactly the recognized-tag elements that are currently in its
\* subtree: an element that is in the subtree at that point (including one
\* that was removed and re-inserted, or moved to another parent, between
\* two flushes) has a live node, and an element that is not in the subtree
\* has none.
C33_MapIsSubtree ==
  mutationRecords = <<>> =>
    \A e \in Elems :
      /\ e \in RecognizedInSubtree => HasLiveNode(e)
      /\ e \notin RecognizedInSubtree => allConvictsByDom[e] = 0

\* what holds: once the batches have been processed every recognized
\* element in the subtree has a live node
C33_SubtreeIsMapped ==
  mutationRecords = <<>> => \A e \in RecognizedInSubtree : HasLiveNode(e)

(***************************************************************************)
(* SpecGone: pointer events on a cell whose elements scripts remove.       *)
(***************************************************************************)
\* <mesh id="a" onclick> with a child mesh, beside another mesh
GoneDocuments == {Tree(<<1, 4>>, <<3>>, <<>>, <<>>, <<>>)}

GoneMove(hit) ==
  PointerMove(hit) /\ UNCHANGED <<animVars, assetVars, keyVars, lerpVars, loopVars, ruleVars, initVars, declVars>>

GoneButton(type) ==
  PointerButton(type) /\ UNCHANGED <<animVars, assetVars, keyVars, lerpVars, loopVars, ruleVars, initVars, declVars>>

GoneRemove(e) ==
  DomRemove(e) /\ UNCHANGED <<animVars, assetVars, keyVars, lerpVars, loopVars, ruleVars, initVars, declVars>>

GoneObserved ==
  DomFlush /\ UNCHANGED <<animVars, assetVars, keyVars, lerpVars, loopVars, ruleVars, initVars, declVars>>

SpecGoneInit ==
  /\ CellInit(GoneDocuments, {Selectors}, {OtherCamera})
  /\ AnimIdle /\ AssetIdle /\ KeyIdle /\ LerpIdle /\ LoopInit /\ RuleIdle /\ InitIdle /\ DeclIdle

SpecGoneNext ==
  \/ \E hit \in 0..MaxNodes : GoneMove(hit)
  \/ \E type \in {"click", "contextmenu"} : GoneButton(type)
  \/ \E e \in Elems : GoneRemove(e)
  \/ GoneObserved

SpecGone == SpecGoneInit /\ [][SpecGoneNext]_vars

\* removeConvict has run for the node: it was created for an element that
\* no longer maps to it
Destroyed(n) == n # 0 /\ nodeEl[n] # 0 /\ allConvictsByDom[nodeEl[n]] # n

\* C36: after a source element is removed and its node destroyed, the
\* host's lastHit does not reference the destroyed node (nor any destroyed
\* descendant), so no later click, mouse-down, mouse-up, double-click,
\* context-menu or leave event is dispatched to a destroyed node and no flag
\* is changed on one.
C36_LastHitIsNotDestroyed ==
  /\ ~Destroyed(last_cast_caught)
  /\ \A i \in 1..Len(events) : ~Destroyed(events[i].target)

\* a click arrives after the node under the pointer was destroyed
ClickOnDestroyed ==
  /\ lastCell.op = "click"
  /\ Destroyed(lastCell.prev)
  /\ events # <<>>

\* what happens instead: the click is dispatched to the destroyed node
C36_ClickSparesDestroyed == ~ClickOnDestroyed

(***************************************************************************)
(* Claims about the back-reference of an element, checked under SpecAttr.  *)
(***************************************************************************)
\* C37: for every source element that has a mapped node, the back-reference
\* stored on the element is the same node that the host's element-to-node
\* map returns, also after the element has been removed from the subtree
\* and added again; an id or class attribute change on the element is
\* therefore recorded on the currently mapped node.
C37_BackReferenceIsMappedNode ==
  \A e \in Elems :
    allConvictsByDom[e] # 0 =>
      /\ convictRef[e] = allConvictsByDom[e]
      /\ mutationRecords = <<>> =>
           /\ domId[allConvictsByDom[e]] = attributes[e].id
           /\ classList[allConvictsByDom[e]] = attributes[e].classes

\* what holds: the back-reference is the first node made for the element,
\* and it is the mapped node until that node is destroyed
C37_BackReferenceIsFirstNode ==
  \A e \in Elems :
    /\ allConvictsByDom[e] # 0 => convictRef[e] # 0
    /\ convictRef[e] # 0 =>
         /\ nodeEl[convictRef[e]] = e
         /\ \A n \in 1..MaxNodes : nodeEl[n] = e => convictRef[e] <= n
         /\ allConvictsByDom[e] \in {0, convictRef[e]} \/ Destroyed(convictRef[e])

(***************************************************************************)
(* Claims about the scene graph after a scan, checked under SpecDom.       *)
(***************************************************************************)
RECURSIVE NearestMappedAncestor(_)
\* the node of the nearest ancestor element of e that has one, or the scene
NearestMappedAncestor(e) ==
  LET p == parentElement(dom, e) IN
  IF p \in {Root, NoParent} THEN Scene
  ELSE IF allConvictsByDom[p] # 0 THEN allConvictsByDom[p]
  ELSE NearestMappedAncestor(p)

\* the elements of the subtree that have a node, with no record pending
Settled == IF mutationRecords = <<>>
             THEN {e \in Elems : IsAttached(dom, e) /\ allConvictsByDom[e] # 0}
             ELSE {}

\* C38: after any scan, every node's parent in the scene graph is the node
\* mapped to its source element's nearest mapped ancestor element, or the
\* scene root when no ancestor inside the host is mapped; this holds also
\* when unrecognized wrapper tags lie between the element and that ancestor.
C38_ParentIsNearestMappedAncestor ==
  \A e \in Settled : nodeParent[allConvictsByDom[e]] = NearestMappedAncestor(e)

\* what holds when only the constructor and the observer scan: the parent
\* is the node of the parent element, or the scene when the parent element
\* has no node
C38_ParentIsNodeOfParentElement ==
  \A e \in Settled :
    LET p == parentElement(dom, e) IN
    nodeParent[allConvictsByDom[e]] =
      IF p # Root /\ allConvictsByDom[p] # 0 THEN allConvictsByDom[p] ELSE Scene

(***************************************************************************)
(* SpecGrow: scripts add elements that have descendants to a cell.         *)
(***************************************************************************)
\* <mesh class="c" style> with the child <mesh id="b" class="c">, outside the
\* cell at first, on its own or inside a <div>
GrowDocuments ==
  {Tree(<<1>>, <<>>, <<>>, <<4>>, <<>>), Tree(<<1>>, <<>>, <<3>>, <<4>>, <<>>)}

GrowAdd(e, p) ==
  DomAdd(e, p) /\ UNCHANGED <<animVars, assetVars, keyVars, lerpVars, loopVars, ruleVars, initVars, declVars>>

GrowRemove(e) ==
  DomRemove(e) /\ UNCHANGED <<animVars, assetVars, keyVars, lerpVars, loopVars, ruleVars, initVars, declVars>>

GrowObserved ==
  DomFlush /\ UNCHANGED <<animVars, assetVars, keyVars, lerpVars, loopVars, ruleVars, initVars, declVars>>

SpecGrowInit ==
  /\ CellInit(GrowDocuments, StyleSheets, {OtherCamera})
  /\ AnimIdle /\ AssetIdle /\ KeyIdle /\ LerpIdle /\ LoopInit /\ RuleIdle /\ InitIdle /\ DeclIdle

SpecGrowNext ==
  \/ \E e \in {2, 3}, p \in {Root, 1} : GrowAdd(e, p)
  \/ \E e \in {2, 3} : GrowRemove(e)
  \/ GrowObserved

SpecGrow == SpecGrowInit /\ [][SpecGrowNext]_vars

\* the nodes the last observer callback created
CreatedNodes == (nextNode - lastCell.created)..(nextNode - 1)

\* the rules that match node n: base, flagged pseudo-state and inline
MatchingRules(n) ==
  {q \in Range(museRules(ThisCell, n)) : q.sel = Inline \/ getCSSRule(styleSheet, q.sel)}

\* C39: when an element with descendant elements is added to a host's
\* subtree, every node created for the added subtree (the added element's
\* node and each descendant's node) has been painted with its matching
\* base, pseudo-state and inline rules by the end of the handling of that
\* mutation record.
C39_AddedSubtreePainted ==
  lastCell.op = "flush" =>
    \A n \in CreatedNodes : MatchingRules(n) \subseteq Range(paints)

\* what holds: a created node whose element is a child of the cell element
\* or of an element that already had a node has been painted
C39_AddedElementPainted ==
  lastCell.op = "flush" =>
    \A n \in CreatedNodes :
      (nodeParent[n] \notin CreatedNodes /\ parentElement(dom, nodeEl[n]) # NoParent
         /\ (parentElement(dom, nodeEl[n]) = Root
               \/ allConvictsByDom[parentElement(dom, nodeEl[n])] # 0))
        => MatchingRules(n) \subseteq Range(paints)

\* the mesh was added with its child, and the child's node was left unpainted
C39_ChildLeftUnpainted ==
  /\ lastCell.op = "flush"
  /\ parentElement(dom, 3) \in {Root, 1}
  /\ \E n \in CreatedNodes :
       /\ nodeEl[n] = 4
       /\ nodeParent[n] \in CreatedNodes
       /\ ~(MatchingRules(n) \subseteq Range(paints))

=============================================================================
